---------------------------- MODULE Spec2Model ----------------------------
(***************************************************************************)
(* A model of the telegram-ingestion pipeline's orchestration primitives:  *)
(*   - CheckpointManager          (src/checkpointSystem.ts)                *)
(*   - TokenRateLimiter           (src/tokenManager.ts)                    *)
(*   - retry / extractInvestmentWithGemini   (src/telegram.ts)             *)
(*   - processBulkMessages        (src/src/utils/processBulkMessages.ts)   *)
(* Each component has its own specification (SpecCheckpoint, SpecLimiter,  *)
(* SpecGemini, SpecBulk); the variables of the other components stay at    *)
(* their initial values in it.                                             *)
(***************************************************************************)
EXTENDS Integers, Sequences, FiniteSets, TLC

VARIABLES
    now,          \* the wall clock (Date.now()), in ticks
    \* ---- CheckpointManager
    ckDisk,       \* ./checkpoints: file name -> file content, or NoFile
    ckLive,       \* TRUE while a CheckpointManager object exists in the process
    ckPath,       \* this.checkpointPath of the live manager
    ckData,       \* this.data of the live manager
    ckLastCall,   \* history: the last call that returned on a manager
    ckLastData,   \* history: this.data when that call returned
    \* ---- TokenRateLimiter
    tlTokensPerMinute,  \* this.tokensPerMinute, the capacity
    tlTokenBudget,      \* this.tokenBudget
    tlLastRefillTime,   \* this.lastRefillTime, ms
    tlPc,               \* "idle", or "waiting" inside consumeTokens' await
    tlTokens,           \* the tokens argument of the call in progress
    tlWakeAt,           \* when the timer of the call in progress is due, ms
    tlConsumed,         \* history: <<time, tokens>> of the recent consumptions
    tlServed,           \* history: the number of consumeTokens calls that returned
    \* ---- retry and extractInvestmentWithGemini
    gmPc,               \* "idle", "retrying" (inside retry) or "done"
    gmMessage,          \* the message of the extraction in progress
    gmWorker,           \* history: how the worker process of the last
                        \* callGeminiAPI closed, [code, output], in a sequence
    gmResult,           \* what extractInvestmentWithGemini settled with: "null", "record", or "raised"
    gmRecord,           \* the record it returned, NoRecord when null
    rtPc,               \* retry: "idle", "attempt" (fn in flight), "sleeping",
                        \*        "returned" or "thrown"
    rtMaxRetries,       \* retry's maxRetries
    rtMaxDelay,         \* retry's maxDelay, ms
    rtInitialDelay,     \* retry's initialDelay, ms
    rtRetries,          \* retry's retries
    rtDelay,            \* retry's delay, ms
    rtError,            \* the error of the latest failed attempt, or NoError
    rtOutcome,          \* the value returned or the error thrown by retry
    rtCalls,            \* history: invocations of fn by this retry call
    rtSleeps,           \* history: the backoff sleeps of this retry call
    gmServedAtCall,     \* history: tlServed at the previous callGeminiAPI
    gmCallMediated,     \* history: a consumeTokens returned since then
    \* ---- processBulkMessages
    pbPc,               \* "idle", "fetching", "attempt" (processMessagesWithAI in
                        \* flight), "retrySleep", "batchSleep", "merging", "done"
    pbChannel,          \* the channel argument
    pbMessages,         \* messages.length
    pbI,                \* i, the index of the current batch
    pbRetryCount,       \* retryCount
    pbCurrentDelay,     \* currentDelay, in 1/DelayScale ms
    pbProcessedCount,   \* processedCount
    pbFiles,            \* the batch_<n>.json files of resultsDir: pairs <<n, records>>
    pbAggregate,        \* the <channel>_investments_genai.json file: a sequence of
                        \* at most one summary
    pbAttempts,         \* history: the attempts started on batch pbI
    pbWriteFailed,      \* history: a write of a batch file failed in this run
    pbOutcome,          \* history: batch index -> "ok" or "failed", this run
    pbRun,              \* history: the number of the run, from 1
    pbDoneBefore,       \* history: batch indices completed in interrupted runs
    \* ---- extractInvestmentsWithAI and extractInvestmentData
    exEngine,           \* "idle", or the engine whose loop is running: "ai" or
                        \* "deterministic"
    exLeft,             \* the messages of the call that the loop has yet to take
    exTotal,            \* the number of messages of the call
    exOutcome,          \* "none", "running", and how the call ended: "returned"
                        \* or "raised"
    exInFlight,         \* the calls of extractInvestmentWithGemini that have
                        \* started and not ended
    exCurrent,          \* the message of the call in flight, in a sequence
    aiCalls,            \* history: the calls of extractInvestmentWithGemini of
                        \* this run, [raised, gaveUp, result]
    aiInvestments,      \* investments of extractInvestmentsWithAI
    dpInvestments,      \* investments of extractInvestmentData
    dpCalls,            \* history: the calls of parseInvestmentData of this
                        \* run, [text, date, raised, looksLikeFunding,
                        \* isRoundup, result]
    \* ---- the links of a record
    lkEngine,           \* "none", or the engine that built the links last
    lkInput,            \* the links of the answer, or the words of the text
    lkLinks,            \* the links of the record
    \* ---- calculateRoundDistribution
    rdPc,               \* "idle" or "visiting"
    rdInput,            \* history: the records as they were at the call
    rdInvestments,      \* investments
    rdI,                \* the number of records the forEach has visited
    rdCounts,           \* roundCounts: the own properties of the object
    \* ---- fetchTelegramMessages and the batches made of its result
    ftPc,               \* "idle", "fetching", "processing", "returned", "batched"
    ftLimit,            \* limit
    ftSource,           \* the messages of the channel, newest first
    ftOffset,           \* offset, as the position of the message with that id
    ftFetchedCount,     \* fetchedCount
    ftMessages,         \* messages, by their positions in the source
    ftFailed,           \* history: a call of this fetch threw
    ftReturned,         \* the list that fetchTelegramMessages returned
    ftBatches           \* batches of processBulkMessages

ckVars == <<ckDisk, ckLive, ckPath, ckData, ckLastCall, ckLastData>>

tlVars == <<tlTokensPerMinute, tlTokenBudget, tlLastRefillTime, tlPc, tlTokens,
            tlWakeAt, tlConsumed, tlServed>>

rtVars == <<rtPc, rtMaxRetries, rtMaxDelay, rtInitialDelay, rtRetries, rtDelay, rtError, rtOutcome,
            rtCalls, rtSleeps>>

gmVars == <<gmPc, gmMessage, gmResult, gmRecord, gmServedAtCall, gmCallMediated,
            gmWorker>>

pbVars == <<pbPc, pbChannel, pbMessages, pbI, pbRetryCount, pbCurrentDelay,
            pbProcessedCount, pbFiles, pbAggregate, pbAttempts, pbWriteFailed,
            pbOutcome, pbRun, pbDoneBefore>>

exVars == <<exEngine, exLeft, exTotal, exOutcome, exInFlight, exCurrent, aiCalls,
            aiInvestments, dpInvestments, dpCalls>>

lkVars == <<lkEngine, lkInput, lkLinks>>

rdVars == <<rdPc, rdInput, rdInvestments, rdI, rdCounts>>

ftVars == <<ftPc, ftLimit, ftSource, ftOffset, ftFetchedCount, ftMessages, ftFailed,
            ftReturned, ftBatches>>

vars == <<now, ckVars, tlVars, rtVars, gmVars, pbVars, exVars, lkVars, rdVars, ftVars>>

-----------------------------------------------------------------------------
(* Bounds of the model *)

MaxClock == 1          \* the clock stops advancing here
MaxBatchIndex == 1     \* batch indices passed to the manager: 0..MaxBatchIndex
MaxCount == 1          \* messagesProcessed passed to updateCheckpoint: -1..MaxCount
MaxTotal == 2          \* updateCheckpoint keeps totalProcessed within 0..MaxTotal
MaxErrors == 2         \* recordError is not called once the log has this many entries
MaxTime == 100000      \* the limiter's clock stops advancing here, ms
MaxMessages == 2       \* the messages of one call of an extraction engine
MaxLinks == 3          \* the links of one answer, the link-like words of one text
TickMs == 20000        \* the step of the limiter's clock between timers, ms
MaxRetriesArg == 2     \* retry is called directly with maxRetries in 0..MaxRetriesArg
MaxBatches == 2        \* the fetched list fills at most this many full batches
MaxRuns == 2           \* processBulkMessages is started at most this many times

-----------------------------------------------------------------------------
(* Time *)

Tick ==
    /\ now < MaxClock
    /\ now' = now + 1

-----------------------------------------------------------------------------
(* CheckpointManager: src/checkpointSystem.ts *)

NoFile == [exists |-> FALSE]
NoData == [none |-> TRUE]

\* Channel names, as sequences of characters.  "a/" and "A_" are two names
\* of one source key: both sanitise to the file name "a_".
Channels == { <<"a", "/">>, <<"A", "_">> }

BatchSizes == {25}

\* One character of channel.replace(/[^a-z0-9]/gi, '_').toLowerCase()
SafeChar(c) ==
    CASE c \in {"a", "A"} -> "a"
      [] c \in {"b", "B"} -> "b"
      [] OTHER -> "_"

\* safeChannel, line 30
SafeChannel(channel) == [i \in 1..Len(channel) |-> SafeChar(channel[i])]

\* path.join(checkpointDir, `${safeChannel}_checkpoint.json`), line 31
CheckpointPath(channel) == SafeChannel(channel) \o <<"_checkpoint.json">>

Paths == { CheckpointPath(c) : c \in Channels }

\* JSON text of an integer: a sign and its decimal digits
DigitChars == <<"0", "1", "2", "3", "4", "5", "6", "7", "8", "9">>

DigitChar(n) == DigitChars[n + 1]

DigitValue(c) == CHOOSE n \in 0..9 : DigitChars[n + 1] = c

RECURSIVE DigitsOf(_)
DigitsOf(n) ==
    IF n < 10 THEN <<DigitChar(n)>>
    ELSE Append(DigitsOf(n \div 10), DigitChar(n % 10))

NumberText(n) == IF n < 0 THEN <<"-">> \o DigitsOf(0 - n) ELSE DigitsOf(n)

RECURSIVE ValueOfDigits(_)
ValueOfDigits(ds) ==
    IF Len(ds) = 0 THEN 0
    ELSE 10 * ValueOfDigits(SubSeq(ds, 1, Len(ds) - 1)) + DigitValue(ds[Len(ds)])

ParseNumber(t) ==
    IF Len(t) > 0 /\ t[1] = "-" THEN 0 - ValueOfDigits(Tail(t)) ELSE ValueOfDigits(t)

\* JSON.stringify(this.data, null, 2), line 82: numbers become number text,
\* strings stay the strings they are
Stringify(d) ==
    [ exists            |-> TRUE,
      channel           |-> d.channel,
      totalProcessed    |-> NumberText(d.totalProcessed),
      lastBatchIndex    |-> NumberText(d.lastBatchIndex),
      lastProcessedTime |-> d.lastProcessedTime,
      batchSize         |-> NumberText(d.batchSize),
      errors            |-> [ i \in 1..Len(d.errors) |->
                                [ batch   |-> NumberText(d.errors[i].batch),
                                  message |-> d.errors[i].message,
                                  time    |-> d.errors[i].time ] ] ]

\* JSON.parse(fs.readFileSync(...)), line 35
ParseCheckpoint(f) ==
    [ channel           |-> f.channel,
      totalProcessed    |-> ParseNumber(f.totalProcessed),
      lastBatchIndex    |-> ParseNumber(f.lastBatchIndex),
      lastProcessedTime |-> f.lastProcessedTime,
      batchSize         |-> ParseNumber(f.batchSize),
      errors            |-> [ i \in 1..Len(f.errors) |->
                                [ batch   |-> ParseNumber(f.errors[i].batch),
                                  message |-> f.errors[i].message,
                                  time    |-> f.errors[i].time ] ] ]

\* new Date().toISOString(): the instant, as an opaque string
IsoTime(t) == <<"T">> \o DigitsOf(t)

\* a constructor that starts a fresh checkpoint at batch 0 instead of -1
InitialDataFromZero(channel, batchSize, t) ==
    [ channel           |-> channel,
      totalProcessed    |-> 0,
      lastBatchIndex    |-> 0,
      lastProcessedTime |-> IsoTime(t),
      batchSize         |-> batchSize,
      errors            |-> << >> ]

\* the fresh state of the constructor, lines 37-44
InitialData(channel, batchSize, t) ==
    [ channel           |-> channel,
      totalProcessed    |-> 0,
      lastBatchIndex    |-> -1,
      lastProcessedTime |-> IsoTime(t),
      batchSize         |-> batchSize,
      errors            |-> << >> ]

\* a saveCheckpoint that writes nothing
saveCheckpointSkipped(disk, path, d) == disk

\* saveCheckpoint, lines 81-83
saveCheckpoint(disk, path, d) == [disk EXCEPT ![path] = Stringify(d)]

\* a getNextBatchIndex that repeats the last completed batch
getNextBatchIndexSame(d) == d.lastBatchIndex

\* getNextBatchIndex, lines 52-54
getNextBatchIndex(d) == d.lastBatchIndex + 1

\* getTotalProcessed, lines 88-90
getTotalProcessed(d) == d.totalProcessed

\* fs.existsSync(this.checkpointPath), line 34
FileExists(disk, path) == disk[path].exists

\* this.data after the constructor, lines 34-46
ConstructedData(disk, channel, batchSize, t) ==
    IF FileExists(disk, CheckpointPath(channel))
    THEN ParseCheckpoint(disk[CheckpointPath(channel)])
    ELSE InitialData(channel, batchSize, t)

\* the directory after the constructor: written only in the else branch, line 45
ConstructedDisk(disk, channel, batchSize, t) ==
    IF FileExists(disk, CheckpointPath(channel))
    THEN disk
    ELSE saveCheckpoint(disk, CheckpointPath(channel), InitialData(channel, batchSize, t))

\* an updateCheckpoint that assigns the count instead of adding it
UpdatedDataAssigned(d, batchIndex, messagesProcessed, t) ==
    [d EXCEPT !.lastBatchIndex = batchIndex,
              !.totalProcessed = messagesProcessed,
              !.lastProcessedTime = IsoTime(t)]

\* this.data after updateCheckpoint, lines 60-62
UpdatedData(d, batchIndex, messagesProcessed, t) ==
    [d EXCEPT !.lastBatchIndex = batchIndex,
              !.totalProcessed = d.totalProcessed + messagesProcessed,
              !.lastProcessedTime = IsoTime(t)]

\* error.toString(), line 72
ErrorToString(e) == <<"Error: ", e>>

ErrorMessages == {"boom"}

\* a recordError that also moves lastBatchIndex to the failed batch
ErrorRecordedAndAdvanced(d, batchIndex, error, t) ==
    [d EXCEPT !.lastBatchIndex = batchIndex,
              !.errors = Append(d.errors,
                  [ batch   |-> batchIndex,
                    message |-> ErrorToString(error),
                    time    |-> IsoTime(t) ])]

\* this.data after recordError, lines 70-74
ErrorRecordedData(d, batchIndex, error, t) ==
    [d EXCEPT !.errors = Append(d.errors,
                  [ batch   |-> batchIndex,
                    message |-> ErrorToString(error),
                    time    |-> IsoTime(t) ])]

\* this.data after reset, lines 96-99
ResetData(d, t) ==
    [d EXCEPT !.totalProcessed = 0,
              !.lastBatchIndex = -1,
              !.lastProcessedTime = IsoTime(t),
              !.errors = << >>]

\* a record of a call that returned
Call(op, path, batchIndex, count, hadFile, prev, prevTotal) ==
    [ op |-> op, path |-> path, batchIndex |-> batchIndex, count |-> count,
      hadFile |-> hadFile,
      prevOp |-> prev.op, prevPath |-> prev.path, prevBatchIndex |-> prev.batchIndex,
      prevTotal |-> prevTotal ]

NoCall == [ op |-> "none", path |-> << >>, batchIndex |-> -1, count |-> 0,
            hadFile |-> FALSE,
            prevOp |-> "none", prevPath |-> << >>, prevBatchIndex |-> -1,
            prevTotal |-> 0 ]

\* new CheckpointManager(channel, batchSize), in a process that holds none
Constructor(channel, batchSize) ==
    /\ ~ckLive
    /\ ckLive' = TRUE
    /\ ckPath' = CheckpointPath(channel)
    /\ ckData' = ConstructedData(ckDisk, channel, batchSize, now)
    /\ ckDisk' = ConstructedDisk(ckDisk, channel, batchSize, now)
    /\ ckLastCall' = Call("constructor", ckPath', -1, 0,
                          FileExists(ckDisk, CheckpointPath(channel)), ckLastCall,
                          IF ckLastCall.op = "none" THEN 0
                          ELSE ckLastData.totalProcessed)
    /\ ckLastData' = ckData'
    /\ UNCHANGED <<now, tlVars, rtVars, gmVars, pbVars, exVars, lkVars, rdVars, ftVars>>

\* updateCheckpoint(batchIndex, messagesProcessed)
UpdateCheckpoint(batchIndex, messagesProcessed) ==
    /\ ckLive
    /\ ckData.totalProcessed + messagesProcessed \in 0..MaxTotal
    /\ ckData' = UpdatedData(ckData, batchIndex, messagesProcessed, now)
    /\ ckDisk' = saveCheckpoint(ckDisk, ckPath, ckData')
    /\ ckLastCall' = Call("updateCheckpoint", ckPath, batchIndex, messagesProcessed, TRUE, NoCall, 0)
    /\ ckLastData' = ckData'
    /\ UNCHANGED <<now, ckLive, ckPath>>
    /\ UNCHANGED <<tlVars, rtVars, gmVars, pbVars, exVars, lkVars, rdVars, ftVars>>

\* recordError(batchIndex, error)
RecordError(batchIndex, error) ==
    /\ ckLive
    /\ Len(ckData.errors) < MaxErrors
    /\ ckData' = ErrorRecordedData(ckData, batchIndex, error, now)
    /\ ckDisk' = saveCheckpoint(ckDisk, ckPath, ckData')
    /\ ckLastCall' = Call("recordError", ckPath, batchIndex, 0, TRUE, NoCall, 0)
    /\ ckLastData' = ckData'
    /\ UNCHANGED <<now, ckLive, ckPath>>
    /\ UNCHANGED <<tlVars, rtVars, gmVars, pbVars, exVars, lkVars, rdVars, ftVars>>

\* reset()
Reset ==
    /\ ckLive
    /\ ckData' = ResetData(ckData, now)
    /\ ckDisk' = saveCheckpoint(ckDisk, ckPath, ckData')
    /\ ckLastCall' = Call("reset", ckPath, -1, 0, TRUE, NoCall, 0)
    /\ ckLastData' = ckData'
    /\ UNCHANGED <<now, ckLive, ckPath>>
    /\ UNCHANGED <<tlVars, rtVars, gmVars, pbVars, exVars, lkVars, rdVars, ftVars>>

\* the process stops between two calls: the object is lost, the files stay
Crash ==
    /\ ckLive
    /\ ckLive' = FALSE
    /\ ckData' = NoData
    /\ UNCHANGED <<now, ckDisk, ckPath, ckLastCall, ckLastData>>
    /\ UNCHANGED <<tlVars, rtVars, gmVars, pbVars, exVars, lkVars, rdVars, ftVars>>

CkInit ==
    /\ ckDisk = [p \in Paths |-> NoFile]
    /\ ckLive = FALSE
    /\ ckPath = << >>
    /\ ckData = NoData
    /\ ckLastCall = NoCall
    /\ ckLastData = NoData

-----------------------------------------------------------------------------
(* TokenRateLimiter: src/tokenManager.ts *)

\* the 60000 ms of lines 22 and 40: the interval tokensPerMinute refers to
MinuteMs == 60000

\* the tokensPerMinute a limiter is constructed with.  The products of the
\* refill arithmetic must stay below 2^31 here, so the capacities are small.
Capacities == {60, 45}

\* the token counts consumeTokens is called with; 70 exceeds every capacity
Requests == {20, 25, 70}

Min(a, b) == IF a <= b THEN a ELSE b

Max(a, b) == IF a >= b THEN a ELSE b

\* Math.floor(x / y) for x >= 0, y > 0
Floor(x, y) == x \div y

\* Math.ceil(x / y) for y > 0
Ceil(x, y) == 0 - ((0 - x) \div y)

\* tokensToAdd, lines 38-42
TokensToAdd(budget, last, capacity, t) == Floor((t - last) * capacity, MinuteMs)

\* this.tokenBudget after refillTokens, lines 44-46
RefilledBudget(budget, last, capacity, t) ==
    IF TokensToAdd(budget, last, capacity, t) > 0
    THEN Min(budget + TokensToAdd(budget, last, capacity, t), capacity)
    ELSE budget

\* a refillTokens that forgets to move lastRefillTime
RefilledTimeStale(budget, last, capacity, t) == last

\* this.lastRefillTime after refillTokens, lines 43-46
RefilledTime(budget, last, capacity, t) ==
    IF TokensToAdd(budget, last, capacity, t) > 0 THEN t ELSE last

\* a timeToWait rounded down
TimeToWaitFloor(tokens, budget, capacity) ==
    Floor((tokens - budget) * MinuteMs, capacity)

\* timeToWait, line 23
TimeToWait(tokens, budget, capacity) == Ceil((tokens - budget) * MinuteMs, capacity)

\* history: the consumptions that a window ending at or after t can still hold
Recent(events, t) == SelectSeq(events, LAMBDA e : e[1] >= t - MinuteMs)

\* consumeTokens(tokens) up to its await, or to its end when it does not wait
ConsumeTokens(tokens) ==
    /\ tlPc = "idle"
    /\ LET budget == RefilledBudget(tlTokenBudget, tlLastRefillTime, tlTokensPerMinute, now)
           last   == RefilledTime(tlTokenBudget, tlLastRefillTime, tlTokensPerMinute, now)
       IN  /\ tlLastRefillTime' = last
           /\ tlTokens' = tokens
           /\ IF tokens > budget
              THEN /\ tlPc' = "waiting"
                   /\ tlWakeAt' = now + TimeToWait(tokens, budget, tlTokensPerMinute)
                   /\ tlTokenBudget' = budget
                   /\ tlConsumed' = tlConsumed
                   /\ tlServed' = tlServed
              ELSE /\ tlPc' = "idle"
                   /\ tlWakeAt' = tlWakeAt
                   /\ tlTokenBudget' = budget - tokens
                   /\ tlConsumed' = Append(Recent(tlConsumed, now), <<now, tokens>>)
                   /\ tlServed' = tlServed + 1
    /\ UNCHANGED <<now, tlTokensPerMinute, ckVars, rtVars, gmVars, pbVars, exVars, lkVars, rdVars, ftVars>>

\* consumeTokens after its await: the timer has fired, lines 24-28
ConsumeAfterWait ==
    /\ tlPc = "waiting"
    /\ now >= tlWakeAt
    /\ LET budget == RefilledBudget(tlTokenBudget, tlLastRefillTime, tlTokensPerMinute, now)
           last   == RefilledTime(tlTokenBudget, tlLastRefillTime, tlTokensPerMinute, now)
       IN  /\ tlLastRefillTime' = last
           /\ tlTokenBudget' = budget - tlTokens
           /\ tlConsumed' = Append(Recent(tlConsumed, now), <<now, tlTokens>>)
    /\ tlPc' = "idle"
    /\ tlServed' = tlServed + 1
    /\ UNCHANGED <<now, tlTokensPerMinute, tlTokens, tlWakeAt, ckVars, rtVars, gmVars, pbVars, exVars, lkVars, rdVars, ftVars>>

\* time passes up to the moment the pending timer is due
TimerDue ==
    /\ tlPc = "waiting"
    /\ now < tlWakeAt
    /\ tlWakeAt <= MaxTime
    /\ now' = tlWakeAt
    /\ tlConsumed' = Recent(tlConsumed, now')
    /\ UNCHANGED <<tlTokensPerMinute, tlTokenBudget, tlLastRefillTime, tlPc, tlTokens,
                   tlWakeAt, tlServed, ckVars, rtVars, gmVars, pbVars, exVars, lkVars, rdVars, ftVars>>

\* time passes: between calls, or past the due time of a timer that fires late
LimiterTick ==
    /\ now + TickMs <= MaxTime
    /\ now' = now + TickMs
    /\ tlConsumed' = Recent(tlConsumed, now')
    /\ UNCHANGED <<tlTokensPerMinute, tlTokenBudget, tlLastRefillTime, tlPc, tlTokens,
                   tlWakeAt, tlServed, ckVars, rtVars, gmVars, pbVars, exVars, lkVars, rdVars, ftVars>>

\* new TokenRateLimiter(tokensPerMinute), lines 4-15, while no call is in progress
NewLimiter(tokensPerMinute) ==
    /\ tlPc = "idle"
    /\ tlTokensPerMinute' = tokensPerMinute
    /\ tlTokenBudget' = tokensPerMinute
    /\ tlLastRefillTime' = now
    /\ tlConsumed' = << >>
    /\ tlServed' = 0
    /\ UNCHANGED <<now, tlPc, tlTokens, tlWakeAt, ckVars, rtVars, gmVars, pbVars, exVars, lkVars, rdVars, ftVars>>

\* the limiter right after its construction at time 0
TlInit ==
    /\ tlTokensPerMinute = 60
    /\ tlTokenBudget = tlTokensPerMinute
    /\ tlLastRefillTime = 0
    /\ tlPc = "idle"
    /\ tlTokens = 0
    /\ tlWakeAt = 0
    /\ tlConsumed = << >>
    /\ tlServed = 0

TlNext ==
    \/ \E tpm \in Capacities : NewLimiter(tpm)
    \/ \E tokens \in Requests : ConsumeTokens(tokens)
    \/ ConsumeAfterWait
    \/ TimerDue
    \/ LimiterTick

-----------------------------------------------------------------------------
(* retry and extractInvestmentWithGemini: src/telegram.ts *)

\* the defaults of retry's parameters, lines 294-296
DefaultMaxRetries == 5
DefaultInitialDelay == 2000
DefaultMaxDelay == 60000

NoError == [thrown |-> FALSE]

\* an Error with a message, the message as a sequence of fragments
Err(message) == [thrown |-> TRUE, hasMessage |-> TRUE, message |-> message]

\* a thrown value without a message property
ErrNoMessage == [thrown |-> TRUE, hasMessage |-> FALSE, message |-> << >>]

\* what callGeminiAPI (or any fn) may fail with
Errors ==
    { Err(<<"got status: ", "503", " Service Unavailable">>),
      Err(<<"The model is ", "overloaded">>),
      Err(<<"UNAVAILABLE">>),
      Err(<<"The model is ", "Overloaded">>),
      Err(<<"Gemini wrapper exited with code ", "1">>),
      ErrNoMessage }

Digits == {DigitChars[i] : i \in 1..10}

\* the token holds the given word
Holds(t, word) ==
    \/ t = word
    \/ /\ word = "Round"
       /\ t \in {"Rounds Of This Week", "Best Funding Rounds Of", "Funding Rounds Of"}
    \/ word = "Week" /\ t = "Rounds Of This Week"
    \/ /\ word \in {"Funding", "Funding Rounds Of"}
       /\ t \in {"Best Funding Rounds Of", "Funding Rounds Of"}

\* String.prototype.includes on a message of fragments or of tokens
Includes(message, part) == \E i \in 1..Len(message) : Holds(message[i], part)

\* isRetryable, lines 308-311; undefined when the error has no message
IsRetryable(e) ==
    /\ e.hasMessage
    /\ \/ Includes(e.message, "503")
       \/ Includes(e.message, "overloaded")
       \/ Includes(e.message, "UNAVAILABLE")

\* a test that allows one attempt more
ShouldThrowLate(retries, maxRetries, e) == retries > maxRetries + 1 \/ ~IsRetryable(e)

\* a test that gives up only when both conditions hold
ShouldThrowBoth(retries, maxRetries, e) == retries > maxRetries /\ ~IsRetryable(e)

\* the test of line 313
ShouldThrow(retries, maxRetries, e) == retries > maxRetries \/ ~IsRetryable(e)

\* Math.random() * 0.3 + 0.85, in hundredths: 0.85 <= jitter < 1.15
Jitters == {85, 100, 114}

\* the delay without its cap
NextDelayUncapped(delay, jitter, maxDelay) == (delay * 15 * jitter) \div 1000

\* line 319, in whole ms
NextDelay(delay, jitter, maxDelay) == Min((delay * 15 * jitter) \div 1000, maxDelay)

\* ---- JavaScript values, as the parsed response holds them: t is the type,
\* s the characters of a string (or the digits of a number), a the elements
\* of an array
JsUndefined == [t |-> "undefined", s |-> << >>, a |-> << >>]

JsString(s) == [t |-> "string", s |-> s, a |-> << >>]

JsNumber(digits) == [t |-> "number", s |-> digits, a |-> << >>]

JsArray(a) == [t |-> "array", s |-> << >>, a |-> a]

\* ToBoolean: what `if (v)` and `v || ""` test
Truthy(v) ==
    CASE v.t = "undefined" -> FALSE
      [] v.t = "string"    -> Len(v.s) > 0
      [] v.t = "number"    -> v.s # <<"0">>
      [] OTHER             -> TRUE

\* String.prototype.replace(ch, '') with a string pattern: the first
\* occurrence only
RECURSIVE ReplaceFirst(_, _)
ReplaceFirst(s, ch) ==
    IF Len(s) = 0 THEN s
    ELSE IF Head(s) = ch THEN Tail(s)
    ELSE <<Head(s)>> \o ReplaceFirst(Tail(s), ch)

\* String.prototype.trim, on the space character
RECURSIVE Trim(_)
Trim(s) ==
    IF Len(s) = 0 THEN s
    ELSE IF Head(s) = " " THEN Trim(Tail(s))
    ELSE IF s[Len(s)] = " " THEN Trim(SubSeq(s, 1, Len(s) - 1))
    ELSE s

\* v.replace('$', '') throws a TypeError unless v is a string
ReplaceThrows(v) == v.t # "string"

\* v.replace('$', '') on a string
WithoutDollar(v) == JsString(ReplaceFirst(v.s, "$"))

\* typeof v === 'string' ? v.replace('$', '') : v   (lines 472, 482, 501)
WithoutDollarIfString(v) == IF v.t = "string" THEN WithoutDollar(v) ELSE v

\* one element of data.acquisitions (or the object itself): null, or an
\* object with company, acquirer and amount
NullAcq == [isNull |-> TRUE, company |-> JsUndefined, acquirer |-> JsUndefined,
            amount |-> JsUndefined]

Acq(company, acquirer, amount) ==
    [isNull |-> FALSE, company |-> company, acquirer |-> acquirer, amount |-> amount]

\* data.acquisitions: t is "undefined", "array" or "object"; items holds the
\* elements of the array, or the object alone
NoAcquisitions == [t |-> "undefined", items |-> << >>]

AcqArray(items) == [t |-> "array", items |-> items]

AcqObject(acq) == [t |-> "object", items |-> <<acq>>]

\* the object JSON.parse returned, with the fields the record's company,
\* type and monetary fields are made of (round, investors, about and links
\* are copied or filtered without a throw and are left out)
Data(company, amount, acquirer, valuation, acquisitions) ==
    [company |-> company, amount |-> amount, acquirer |-> acquirer,
     valuation |-> valuation, acquisitions |-> acquisitions]

\* rawText.toLowerCase().includes("acquired") || ...includes("acquisition")
MentionsAcquisition(text) ==
    \E i \in 1..Len(text) : text[i] \in {"acquired", "Acquired", "acquisition", "Acquisition"}

\* line 344: /Top\s+\d+|Best\s+Rounds|Notable\s+Rounds|This\s+Week/i
IsRoundupText(text) ==
    \/ \E i \in 1..Len(text) :
          text[i] \in {"Top 5 ", "Best Rounds", "Notable Rounds", "s of This Week",
                       "Rounds Of This Week"}
    \/ \E p \in 1..Len(text) : \E q \in (p + 2)..Len(text) :
          /\ text[p] = "Top"
          /\ \A r \in (p + 1)..(q - 1) : text[r] = " "
          /\ text[q] \in Digits

\* lines 391-402
StandardType(data, text, isRoundup) ==
    IF isRoundup THEN "roundup"
    ELSE IF \/ data.acquisitions.t # "undefined"
            \/ Truthy(data.acquirer)
            \/ MentionsAcquisition(text)
         THEN "acquisition"
         ELSE "investment"

\* an InvestmentData the AI engine builds; amount, acquirer and valuation are
\* JsUndefined when the field is absent
NoRecord ==
    [type |-> "none", company |-> JsUndefined, amount |-> JsUndefined,
     acquirer |-> JsUndefined, valuation |-> JsUndefined,
     acquisitionsInRoundup |-> << >>, isPartOfRoundup |-> FALSE]

\* line 431
RoundupPlaceholder == JsString(<<"Weekly Investment Roundup">>)

\* lines 421-425: one element of the amount list
StandardizedAmount(amount) ==
    IF amount.t # "string" THEN amount
    ELSE JsString(ReplaceFirst(Trim(amount.s), "$"))

\* lines 415-432, 448, 479: company
StandardCompany(data, type) ==
    IF type = "roundup"
    THEN IF data.company.t = "array" /\ Len(data.company.a) > 0
         THEN data.company ELSE RoundupPlaceholder
    ELSE IF Truthy(data.company) THEN data.company ELSE JsString(<< >>)

\* the first element of data.acquisitions, lines 453-467
FirstAcq(data) == data.acquisitions.items[1]

\* lines 419-428, 451-475, 481-484: amount
StandardAmount(data, type) ==
    CASE type = "roundup" ->
            IF /\ data.company.t = "array" /\ Len(data.company.a) > 0
               /\ data.amount.t = "array" /\ Len(data.amount.a) > 0
            THEN JsArray([k \in 1..Len(data.amount.a) |-> StandardizedAmount(data.amount.a[k])])
            ELSE JsUndefined
      [] type = "acquisition" ->
            IF data.acquisitions.t # "undefined"
            THEN IF Len(data.acquisitions.items) > 0 /\ Truthy(FirstAcq(data).amount)
                 THEN WithoutDollar(FirstAcq(data).amount)
                 ELSE JsUndefined
            ELSE IF Truthy(data.amount) THEN WithoutDollarIfString(data.amount)
                 ELSE JsUndefined
      [] OTHER ->
            IF Truthy(data.amount) THEN WithoutDollarIfString(data.amount)
            ELSE JsUndefined

\* lines 456, 463, 470: acquirer
StandardAcquirer(data, type) ==
    IF type # "acquisition" THEN JsUndefined
    ELSE IF data.acquisitions.t # "undefined"
         THEN IF Len(data.acquisitions.items) > 0 THEN FirstAcq(data).acquirer
              ELSE JsUndefined
         ELSE data.acquirer

\* lines 500-503: valuation
StandardValuation(data) ==
    IF Truthy(data.valuation) THEN WithoutDollarIfString(data.valuation) ELSE JsUndefined

\* lines 435-441: acquisitionsInRoundup
StandardAcquisitionsInRoundup(data, type) ==
    IF type = "roundup" /\ data.acquisitions.t = "array"
    THEN [k \in 1..Len(data.acquisitions.items) |->
            LET acq == data.acquisitions.items[k]
            IN  Acq(acq.company, acq.acquirer,
                    IF Truthy(acq.amount) THEN WithoutDollar(acq.amount) ELSE JsUndefined)]
    ELSE << >>

\* the inputs on which standardizeInvestmentData throws a TypeError: a null
\* element read at lines 437 or 456, or replace called on a value that is
\* not a string at lines 439, 458 or 465
StandardizeThrows(data, text, isRoundup) ==
    LET type  == StandardType(data, text, isRoundup)
        items == data.acquisitions.items
    IN  \/ /\ type = "roundup"
           /\ data.acquisitions.t = "array"
           /\ \E k \in 1..Len(items) :
                 \/ items[k].isNull
                 \/ Truthy(items[k].amount) /\ ReplaceThrows(items[k].amount)
        \/ /\ type = "acquisition"
           /\ data.acquisitions.t # "undefined"
           /\ Len(items) > 0
           /\ \/ items[1].isNull
              \/ Truthy(items[1].amount) /\ ReplaceThrows(items[1].amount)

\* standardizeInvestmentData, lines 384-511, when it returns
standardizeInvestmentData(data, text, isRoundup) ==
    LET type == StandardType(data, text, isRoundup)
    IN  [type |-> type,
         company |-> StandardCompany(data, type),
         amount |-> StandardAmount(data, type),
         acquirer |-> StandardAcquirer(data, type),
         valuation |-> StandardValuation(data),
         acquisitionsInRoundup |-> StandardAcquisitionsInRoundup(data, type),
         isPartOfRoundup |-> (type = "roundup")]

\* characters of the amounts the service may answer with
Amt5M == <<"$", "5", "M">>
AmtPadded == <<" ", "$", "2", "M">>
AmtRange == <<"$", "5", "M", "-", "$", "9", "M">>
AmtWords == <<"5", " ", "million">>

\* the bodies of the JSON objects the service may answer with, by name
BodyNames ==
    {"c", "cNoCompany", "cNumCompany", "cList", "cShort", "cEmptyList", "cWords",
     "cRange", "cAcq", "cAcqNull", "cAcqNum", "cAcqObj", "cVal"}

\* what JSON.parse yields for the body of that name
BodyData(name) ==
    LET acme == JsString(<<"Acme">>)
        five == JsString(<<"5", "M">>)
    IN
    CASE name = "cNoCompany" ->
            Data(JsUndefined, five, JsUndefined, JsUndefined, NoAcquisitions)
      [] name = "cNumCompany" ->
            Data(JsNumber(<<"5">>), JsNumber(<<"5">>), JsUndefined, JsUndefined, NoAcquisitions)
      [] name = "cList" ->
            Data(JsArray(<<JsString(<<"A">>), JsString(<<"B">>)>>),
                 JsArray(<<JsString(Amt5M), JsString(AmtPadded)>>),
                 JsUndefined, JsUndefined, NoAcquisitions)
      [] name = "cShort" ->
            Data(JsArray(<<JsString(<<"A">>), JsString(<<"B">>)>>),
                 JsArray(<<JsString(Amt5M)>>),
                 JsUndefined, JsUndefined,
                 AcqArray(<<Acq(JsString(<<"B">>), JsString(<<"A">>), JsString(AmtRange))>>))
      [] name = "cEmptyList" ->
            Data(JsArray(<< >>), JsUndefined, JsUndefined, JsUndefined, NoAcquisitions)
      [] name = "cWords" ->
            Data(acme, JsString(AmtWords), JsUndefined, JsUndefined, NoAcquisitions)
      [] name = "cRange" ->
            Data(acme, JsString(AmtRange), JsUndefined, JsString(AmtRange), NoAcquisitions)
      [] name = "cAcq" ->
            Data(acme, JsUndefined, JsUndefined, JsUndefined,
                 AcqArray(<<Acq(acme, JsString(<<"Big">>), JsString(Amt5M))>>))
      [] name = "cAcqNull" ->
            Data(acme, JsUndefined, JsUndefined, JsUndefined, AcqArray(<<NullAcq>>))
      [] name = "cAcqNum" ->
            Data(acme, JsUndefined, JsUndefined, JsUndefined,
                 AcqObject(Acq(acme, JsString(<<"Big">>), JsNumber(<<"5">>))))
      [] name = "cAcqObj" ->
            Data(acme, five, JsString(<<"Big">>), JsUndefined, NoAcquisitions)
      [] name = "cVal" ->
            Data(acme, JsString(Amt5M), JsUndefined, JsString(Amt5M), NoAcquisitions)
      [] OTHER ->
            Data(acme, JsString(Amt5M), JsUndefined, JsUndefined, NoAcquisitions)

\* the object for "{}"
EmptyData == Data(JsUndefined, JsUndefined, JsUndefined, JsUndefined, NoAcquisitions)

\* the responses of the generation service, as sequences of characters; a
\* body name stands for the members of a JSON object, "k:" for a key
Responses ==
    { <<"{", "c", "}">>,
      <<"S", "{", "c", "}", "T">>,
      <<"S">>,
      <<"}", "{">>,
      <<"{", "{", "c", "}">>,
      <<"{", "c", "}", "S", "{", "cWords", "}">>,
      <<"S", "{", "cRange", "k:", "{", "c", "}", "}">>,
      <<"{", "}">>,
      <<"{", "cAcqNull", "}">>,
      <<"{", "cAcqNum", "}", "T">> }

\* response.indexOf("{"), 0-based, -1 when absent
IndexOfOpen(r) ==
    IF \E i \in 1..Len(r) : r[i] = "{"
    THEN (CHOOSE i \in 1..Len(r) : r[i] = "{" /\ \A j \in 1..(i - 1) : r[j] # "{") - 1
    ELSE -1

\* response.indexOf("}"), 0-based, -1 when absent
IndexOfClose(r) ==
    IF \E i \in 1..Len(r) : r[i] = "}"
    THEN (CHOOSE i \in 1..Len(r) : r[i] = "}" /\ \A j \in 1..(i - 1) : r[j] # "}") - 1
    ELSE -1

\* response.lastIndexOf("}"), 0-based, -1 when absent
LastIndexOfClose(r) ==
    IF \E i \in 1..Len(r) : r[i] = "}"
    THEN (CHOOSE i \in 1..Len(r) : r[i] = "}" /\ \A j \in (i + 1)..Len(r) : r[j] # "}") - 1
    ELSE -1

\* a JSON.parse that accepts any text
ParsesAnything(text) == TRUE

\* JSON.parse succeeds on the text: an object, empty, with members, or with
\* members and a nested object
ParsesAsJson(text) ==
    \/ text = <<"{", "}">>
    \/ /\ Len(text) = 3
       /\ text[1] = "{" /\ text[2] \in BodyNames /\ text[3] = "}"
    \/ /\ Len(text) = 7
       /\ text[1] = "{" /\ text[2] \in BodyNames /\ text[3] = "k:"
       /\ text[4] = "{" /\ text[5] \in BodyNames /\ text[6] = "}" /\ text[7] = "}"

\* what JSON.parse returns for a text it accepts
ParsedData(text) == IF Len(text) = 2 THEN EmptyData ELSE BodyData(text[2])

\* response.substring(jsonStart, jsonEnd), lines 357-364
JsonString(r) == SubSeq(r, IndexOfOpen(r) + 1, LastIndexOfClose(r) + 1)

\* the inner try block, lines 357-368: "null" at line 361, a SyntaxError of
\* JSON.parse, a TypeError of standardizeInvestmentData, or a record
TryResponse(r, text) ==
    LET jsonStart == IndexOfOpen(r)
        jsonEnd   == LastIndexOfClose(r) + 1
    IN  IF jsonStart < 0 \/ jsonEnd <= jsonStart THEN "null"
        ELSE IF ~ParsesAsJson(JsonString(r)) THEN "SyntaxError"
        ELSE IF StandardizeThrows(ParsedData(JsonString(r)), text, IsRoundupText(text))
             THEN "TypeError"
        ELSE "record"

\* the catch clause of lines 370-374
InnerCatch(outcome) == IF outcome \in {"SyntaxError", "TypeError"} THEN "null" ELSE outcome

\* lines 356-374: whether the response yields a record, or null
ProcessResponse(r, text) == InnerCatch(TryResponse(r, text))

\* a catch clause that lets the error through
NoCatch(outcome) == outcome

\* the catch clause of lines 375-378, around the retry call and the inner try
OuterCatch(outcome) == IF outcome = "raised" THEN "null" ELSE outcome

\* lines 351-378: what extractInvestmentWithGemini settles with once retry
\* has thrown (retryThrew) or returned the response r
ExtractOutcome(retryThrew, r, text) ==
    OuterCatch(IF retryThrew THEN "raised" ELSE ProcessResponse(r, text))

\* line 368: the record returned when the response yields one
ProcessedRecord(r, text) ==
    IF ProcessResponse(r, text) = "record"
    THEN standardizeInvestmentData(ParsedData(JsonString(r)), text, IsRoundupText(text))
    ELSE NoRecord

\* message texts, as sequences of fragments
Messages ==
    { <<"Acme ", "raised", " ", "$", "5M">>,
      <<"Top 5 ", "Round", "s of This Week">>,
      <<"gm everyone">> }

\* the keyword pre-filter, lines 334-341
PassesPrefilter(text) ==
    \/ Includes(text, "Round")
    \/ Includes(text, "raised")
    \/ Includes(text, "acquired")
    \/ Includes(text, "Funding")
    \/ Includes(text, "$")
    \/ Includes(text, "investment")

\* the entry of retry, lines 298-303: the first invocation of fn
RetryEnter(maxRetries, initialDelay, maxDelay) ==
    /\ rtPc' = "attempt"
    /\ rtMaxRetries' = maxRetries
    /\ rtMaxDelay' = maxDelay
    /\ rtInitialDelay' = initialDelay
    /\ rtRetries' = 0
    /\ rtDelay' = initialDelay
    /\ rtError' = NoError
    /\ rtOutcome' = NoError
    /\ rtCalls' = 1
    /\ rtSleeps' = << >>

\* history: whether a consumeTokens returned before this callGeminiAPI
NoteApiCall ==
    /\ gmCallMediated' = (tlServed > gmServedAtCall)
    /\ gmServedAtCall' = tlServed

\* retry(fn, maxRetries, initialDelay, maxDelay) called on its own
RetryCall(maxRetries, initialDelay, maxDelay) ==
    /\ gmPc = "idle"
    /\ rtPc = "idle"
    /\ RetryEnter(maxRetries, initialDelay, maxDelay)
    /\ UNCHANGED <<now, ckVars, tlVars, gmVars, pbVars, exVars, lkVars, rdVars, ftVars>>

\* the exit codes of the worker process; -1 stands for null, the code of a
\* process that a signal ended
ExitCodes == {0, 1, -1}

\* `${code}`
CodeText(code) == IF code = -1 THEN "null" ELSE IF code = 0 THEN "0" ELSE "1"

\* the output file when the worker process has closed: unreadable (missing
\* or no JSON), or what processRequest wrote, geminiWrapper.mjs lines 43-52
OutputFiles ==
    { [readable |-> FALSE, success |-> FALSE, response |-> << >>, error |-> << >>],
      [readable |-> TRUE, success |-> TRUE, response |-> <<"{", "c", "}">>,
       error |-> << >>],
      [readable |-> TRUE, success |-> TRUE, response |-> <<"S">>, error |-> << >>],
      [readable |-> TRUE, success |-> FALSE, response |-> << >>,
       error |-> <<"got status: ", "503", " Service Unavailable">>],
      [readable |-> TRUE, success |-> FALSE, response |-> << >>, error |-> << >>] }

\* a close handler that reads the output file whatever the exit code
callGeminiAPIAnyExit(code, output) ==
    IF ~output.readable THEN Err(<<"Unexpected end of JSON input">>)
    ELSE IF ~output.success
         THEN Err(IF Len(output.error) > 0 THEN output.error
                  ELSE <<"Unknown error in Gemini API call">>)
    ELSE [thrown |-> FALSE, response |-> output.response]

\* callGeminiAPI from the close of the worker process on, lines 260-284:
\* the error it rejects with, or the response it resolves with
callGeminiAPI(code, output) ==
    IF code # 0 THEN Err(<<"Gemini wrapper exited with code ", CodeText(code)>>)
    ELSE IF ~output.readable THEN Err(<<"Unexpected end of JSON input">>)
    ELSE IF ~output.success
         THEN Err(IF Len(output.error) > 0 THEN output.error
                  ELSE <<"Unknown error in Gemini API call">>)
    ELSE [thrown |-> FALSE, response |-> output.response]

\* fn resolves: retry returns its value, line 303
RetryResolves(value) ==
    /\ rtPc' = "returned"
    /\ rtOutcome' = value
    /\ UNCHANGED <<rtMaxRetries, rtMaxDelay, rtInitialDelay, rtRetries, rtDelay, rtError,
                   rtCalls, rtSleeps>>

\* fn rejects: the catch block, lines 304-322, up to its throw or its await
RetryRejects(error, jitter) ==
    /\ rtRetries' = rtRetries + 1
    /\ rtError' = error
    /\ IF ShouldThrow(rtRetries', rtMaxRetries, error)
       THEN /\ rtPc' = "thrown"
            /\ rtOutcome' = error
            /\ UNCHANGED <<rtDelay, rtSleeps>>
       ELSE /\ rtPc' = "sleeping"
            /\ rtDelay' = NextDelay(rtDelay, jitter, rtMaxDelay)
            /\ rtSleeps' = Append(rtSleeps, rtDelay')
            /\ UNCHANGED rtOutcome
    /\ UNCHANGED <<rtMaxRetries, rtMaxDelay, rtInitialDelay, rtCalls>>

\* retry takes the settlement of fn
RetrySettles(settled, jitter) ==
    IF settled.thrown THEN RetryRejects(settled, jitter)
    ELSE RetryResolves(settled.response)

\* the worker process of the callGeminiAPI call in flight closes, lines
\* 260-284, and retry takes the settlement of the call, lines 303-322
WorkerCloses(code, output, jitter) ==
    /\ gmPc = "retrying"
    /\ rtPc = "attempt"
    /\ gmWorker' = <<[code |-> code, output |-> output]>>
    /\ RetrySettles(callGeminiAPI(code, output), jitter)
    /\ UNCHANGED <<gmPc, gmMessage, gmResult, gmRecord, gmServedAtCall, gmCallMediated>>
    /\ UNCHANGED <<now, ckVars, tlVars, pbVars, exVars, lkVars, rdVars, ftVars>>

\* fn resolves: retry returns its value, line 303
FnResolves(value) ==
    /\ rtPc = "attempt"
    /\ rtPc' = "returned"
    /\ rtOutcome' = value
    /\ gmWorker' = << >>
    /\ UNCHANGED <<rtMaxRetries, rtMaxDelay, rtInitialDelay, rtRetries, rtDelay, rtError,
                   rtCalls, rtSleeps>>
    /\ UNCHANGED <<gmPc, gmMessage, gmResult, gmRecord, gmServedAtCall, gmCallMediated>>
    /\ UNCHANGED <<now, ckVars, tlVars, pbVars, exVars, lkVars, rdVars, ftVars>>

\* fn rejects: the catch block, lines 304-322, up to its throw or its await
FnRejects(error, jitter) ==
    /\ rtPc = "attempt"
    /\ gmWorker' = << >>
    /\ UNCHANGED <<gmPc, gmMessage, gmResult, gmRecord, gmServedAtCall, gmCallMediated>>
    /\ rtRetries' = rtRetries + 1
    /\ rtError' = error
    /\ IF ShouldThrow(rtRetries', rtMaxRetries, error)
       THEN /\ rtPc' = "thrown"
            /\ rtOutcome' = error
            /\ UNCHANGED <<rtDelay, rtSleeps>>
       ELSE /\ rtPc' = "sleeping"
            /\ rtDelay' = NextDelay(rtDelay, jitter, rtMaxDelay)
            /\ rtSleeps' = Append(rtSleeps, rtDelay')
            /\ UNCHANGED rtOutcome
    /\ UNCHANGED <<rtMaxRetries, rtMaxDelay, rtInitialDelay, rtCalls>>
    /\ UNCHANGED <<now, ckVars, tlVars, pbVars, exVars, lkVars, rdVars, ftVars>>

\* the backoff timer fires: the loop invokes fn again, lines 322 and 303
SleepDone ==
    /\ rtPc = "sleeping"
    /\ rtPc' = "attempt"
    /\ rtCalls' = rtCalls + 1
    /\ IF gmPc = "retrying" THEN NoteApiCall
       ELSE UNCHANGED <<gmServedAtCall, gmCallMediated>>
    /\ UNCHANGED <<rtMaxRetries, rtMaxDelay, rtInitialDelay, rtRetries, rtDelay, rtError,
                   rtOutcome, rtSleeps>>
    /\ UNCHANGED <<now, ckVars, tlVars, gmPc, gmMessage, gmResult, gmRecord, gmWorker,
                   pbVars, exVars, lkVars, rdVars, ftVars>>

\* the caller of a direct retry call takes its result
RetryLeave ==
    /\ gmPc = "idle"
    /\ rtPc \in {"returned", "thrown"}
    /\ rtPc' = "idle"
    /\ UNCHANGED <<rtMaxRetries, rtMaxDelay, rtInitialDelay, rtRetries, rtDelay, rtError,
                   rtOutcome, rtCalls, rtSleeps>>
    /\ UNCHANGED <<now, ckVars, tlVars, gmVars, pbVars, exVars, lkVars, rdVars, ftVars>>

\* extractInvestmentWithGemini(message) up to its first await, lines 330-353
ExtractStart(text) ==
    /\ gmPc \in {"idle", "done"}
    /\ rtPc = "idle"
    /\ gmMessage' = text
    /\ gmWorker' = << >>
    /\ IF PassesPrefilter(text)
       THEN /\ gmPc' = "retrying"
            /\ gmResult' = "pending"
            /\ gmRecord' = NoRecord
            /\ RetryEnter(DefaultMaxRetries, DefaultInitialDelay, DefaultMaxDelay)
            /\ NoteApiCall
       ELSE /\ gmPc' = "done"
            /\ gmResult' = "null"
            /\ gmRecord' = NoRecord
            /\ UNCHANGED <<rtVars, gmServedAtCall, gmCallMediated>>
    /\ UNCHANGED <<now, ckVars, tlVars, pbVars, exVars, lkVars, rdVars, ftVars>>

\* extractInvestmentWithGemini after retry settled, lines 353-378
ExtractFinish ==
    /\ gmPc = "retrying"
    /\ rtPc \in {"returned", "thrown"}
    /\ gmPc' = "done"
    /\ gmResult' = ExtractOutcome(rtPc = "thrown", rtOutcome, gmMessage)
    /\ gmRecord' = IF gmResult' = "record" THEN ProcessedRecord(rtOutcome, gmMessage)
                   ELSE NoRecord
    /\ rtPc' = "idle"
    /\ UNCHANGED <<rtMaxRetries, rtMaxDelay, rtInitialDelay, rtRetries, rtDelay, rtError,
                   rtOutcome, rtCalls, rtSleeps>>
    /\ UNCHANGED <<now, ckVars, tlVars, gmMessage, gmServedAtCall, gmCallMediated,
                   gmWorker, pbVars, exVars, lkVars, rdVars, ftVars>>

GmInit ==
    /\ gmPc = "idle"
    /\ gmMessage = << >>
    /\ gmResult = "none"
    /\ gmRecord = NoRecord
    /\ gmServedAtCall = 0
    /\ gmCallMediated = FALSE
    /\ gmWorker = << >>
    /\ rtPc = "idle"
    /\ rtMaxRetries = 0
    /\ rtMaxDelay = 0
    /\ rtInitialDelay = 0
    /\ rtRetries = 0
    /\ rtDelay = 0
    /\ rtError = NoError
    /\ rtOutcome = NoError
    /\ rtCalls = 0
    /\ rtSleeps = << >>

\* the parameters of the direct retry calls
InitialDelays == {0, 2000, 40000}
MaxDelays == {1000, 60000}

GmNext ==
    \/ \E text \in Messages : ExtractStart(text)
    \/ ExtractFinish
    \/ \E mr \in 0..MaxRetriesArg, d \in InitialDelays, md \in MaxDelays : RetryCall(mr, d, md)
    \/ \E r \in Responses : FnResolves(r)
    \/ \E e \in Errors, j \in Jitters : FnRejects(e, j)
    \/ \E code \in ExitCodes, output \in OutputFiles, j \in Jitters :
          WorkerCloses(code, output, j)
    \/ SleepDone
    \/ RetryLeave

-----------------------------------------------------------------------------
(* processBulkMessages: src/src/utils/processBulkMessages.ts *)

BATCH_SIZE == 25
DELAY_BETWEEN_BATCHES == 5000
MAX_RETRIES_PER_BATCH == 3

\* currentDelay is kept in 1/DelayScale ms, so that the multiplications and
\* divisions by PROGRESSIVE_BACKOFF = 1.5 = 3/2 of a run are exact: the delay
\* is 5000 * 1.5^j with j at most the number of failed attempts of the run,
\* and 5000 * 512 is a multiple of 2^12
DelayScale == 512

\* the lengths of the fetched list: full batches, and full batches plus one
FetchedLengths ==
    { n \in 0..(MaxBatches * BATCH_SIZE + 1) : n % BATCH_SIZE \in {0, 1} }

\* batches.length, lines 42-45
BatchCount(n) == Ceil(n, BATCH_SIZE)

\* batches[i].length, line 44
BatchLength(n, i) == Min(n, (i + 1) * BATCH_SIZE) - i * BATCH_SIZE

\* currentDelay / PROGRESSIVE_BACKOFF, without the minimum
DelayDivided(delay) == (delay * 2) \div 3

\* currentDelay after a successful batch, line 81
DelayAfterSuccess(delay) ==
    Max(DELAY_BETWEEN_BATCHES * DelayScale, (delay * 2) \div 3)

\* currentDelay after a failed attempt, line 88
DelayAfterFailure(delay) == (delay * 3) \div 2

\* where the for loop goes after the while loop of batch i, lines 99-104
AfterBatch(n, i) == IF i < BatchCount(n) - 1 THEN "batchSleep" ELSE "merging"

\* the records extractInvestmentsWithAI returns for a batch: each carries
\* rawText and no text property (telegram.ts lines 404-410)
RecordA == [type |-> "investment", company |-> "Acme", rawText |-> "Acme raised $5M"]

RecordB == [type |-> "acquisition", company |-> "Bob", rawText |-> "Big acquired Bob"]

BatchOutputs == { <<RecordA>>, <<RecordB, RecordA>> }

\* why an attempt throws: the dynamic import of line 121, or writeFileSync
FailureCauses == {"import", "write"}

\* the numbers n of the files batch_<n>.json
FileNumbers(files) == { f[1] : f \in files }

\* fs.writeFileSync(batchFilePath, ...), line 73: the file is created or replaced
WriteFile(files, n, records) == { f \in files : f[1] # n } \cup { <<n, records>> }

\* JSON.parse(fs.readFileSync(filePath)), line 137
ReadFile(files, n) == (CHOOSE f \in files : f[1] = n)[2]

\* allInvestments, lines 130-139: the batch files of the directory up to
\* batch_<n>.json, concatenated
RECURSIVE ConcatFiles(_, _)
ConcatFiles(files, n) ==
    IF n = 0 THEN << >>
    ELSE ConcatFiles(files, n - 1)
            \o (IF n \in FileNumbers(files) THEN ReadFile(files, n) ELSE << >>)

\* extractInvestmentWithGemini(item) raises: text is undefined and
\* text.includes throws at telegram.ts line 334, before the try of line 351
ExtractionRaises(item) == "text" \notin DOMAIN item

\* extractInvestmentsWithAI on records, telegram.ts lines 636-657: an item
\* whose extraction raises is dropped by the catch of line 651; an item with
\* a text would be a message, which no batch file holds
ExtractedFromRecords(items) == SelectSeq(items, LAMBDA item : ~ExtractionRaises(item))

\* saveAIInvestmentData(channel, allInvestments), telegram.ts lines 683-713:
\* the summary it writes (the statistics other than totalInvestments left out)
SummaryWith(investments) ==
    [totalInvestments |-> Len(investments), investments |-> investments]

SavedSummary(allInvestments) == SummaryWith(ExtractedFromRecords(allInvestments))

\* processBulkMessages(channel, totalLimit) up to the fetch, lines 20-31
BulkStart(channel) ==
    /\ pbPc = "idle"
    /\ pbPc' = "fetching"
    /\ pbChannel' = channel
    /\ pbMessages' = 0
    /\ pbI' = 0
    /\ pbRetryCount' = 0
    /\ pbCurrentDelay' = DELAY_BETWEEN_BATCHES * DelayScale
    /\ pbProcessedCount' = 0
    /\ pbFiles' = {}
    /\ pbOutcome' = << >>
    /\ pbAttempts' = 0
    /\ pbWriteFailed' = FALSE
    /\ UNCHANGED <<pbAggregate, pbRun, pbDoneBefore>>
    /\ UNCHANGED <<now, ckVars, tlVars, rtVars, gmVars, exVars, lkVars, rdVars, ftVars>>

\* the fetch or the saving of the raw messages throws: the outer catch, line 110
BulkFetchFails ==
    /\ pbPc = "fetching"
    /\ pbPc' = "done"
    /\ UNCHANGED <<pbChannel, pbMessages, pbI, pbRetryCount, pbCurrentDelay,
                   pbProcessedCount, pbFiles, pbAggregate, pbAttempts, pbWriteFailed,
                   pbOutcome, pbRun, pbDoneBefore>>
    /\ UNCHANGED <<now, ckVars, tlVars, rtVars, gmVars, exVars, lkVars, rdVars, ftVars>>

\* the fetch returns n messages: lines 31-70, up to the first batch attempt
BulkFetched(n) ==
    /\ pbPc = "fetching"
    /\ pbMessages' = n
    /\ pbPc' = IF BatchCount(n) > 0 THEN "attempt" ELSE "merging"
    /\ pbAttempts' = IF BatchCount(n) > 0 THEN 1 ELSE 0
    /\ UNCHANGED <<pbChannel, pbI, pbRetryCount, pbCurrentDelay, pbProcessedCount,
                   pbFiles, pbAggregate, pbWriteFailed, pbOutcome, pbRun, pbDoneBefore>>
    /\ UNCHANGED <<now, ckVars, tlVars, rtVars, gmVars, exVars, lkVars, rdVars, ftVars>>

\* processMessagesWithAI returns investments and the batch file is written,
\* lines 70-81
BulkAttemptSucceeds(investments) ==
    /\ pbPc = "attempt"
    /\ pbFiles' = WriteFile(pbFiles, pbI + 1, investments)
    /\ pbProcessedCount' = pbProcessedCount + BatchLength(pbMessages, pbI)
    /\ pbCurrentDelay' = DelayAfterSuccess(pbCurrentDelay)
    /\ pbOutcome' = Append(pbOutcome, "ok")
    /\ pbPc' = AfterBatch(pbMessages, pbI)
    /\ UNCHANGED <<pbChannel, pbMessages, pbI, pbRetryCount, pbAggregate, pbAttempts,
                   pbWriteFailed, pbRun, pbDoneBefore>>
    /\ UNCHANGED <<now, ckVars, tlVars, rtVars, gmVars, exVars, lkVars, rdVars, ftVars>>

\* a run that a batch failing on all its attempts ends
FailureEndsRun(retryCount, n, i) ==
    IF retryCount >= MAX_RETRIES_PER_BATCH THEN "done" ELSE "retrySleep"

\* a while loop that tries a failed batch again whatever retryCount is
RetriesForever(retryCount, n, i) == "retrySleep"

\* where the while loop goes after a failed attempt, lines 84-96
AfterFailure(retryCount, n, i) ==
    IF retryCount >= MAX_RETRIES_PER_BATCH THEN AfterBatch(n, i) ELSE "retrySleep"

\* processMessagesWithAI or the writing of the batch file throws, lines 83-96
BulkAttemptFails(cause) ==
    /\ pbPc = "attempt"
    /\ pbRetryCount' = pbRetryCount + 1
    /\ pbCurrentDelay' = DelayAfterFailure(pbCurrentDelay)
    /\ pbPc' = AfterFailure(pbRetryCount', pbMessages, pbI)
    /\ pbOutcome' = IF pbRetryCount' >= MAX_RETRIES_PER_BATCH
                    THEN Append(pbOutcome, "failed") ELSE pbOutcome
    /\ pbWriteFailed' = (pbWriteFailed \/ cause = "write")
    /\ UNCHANGED <<pbChannel, pbMessages, pbI, pbProcessedCount, pbFiles, pbAggregate,
                   pbAttempts, pbRun, pbDoneBefore>>
    /\ UNCHANGED <<now, ckVars, tlVars, rtVars, gmVars, exVars, lkVars, rdVars, ftVars>>

\* the sleep of line 94 ends: the while loop attempts the batch again
BulkRetrySleepDone ==
    /\ pbPc = "retrySleep"
    /\ pbPc' = "attempt"
    /\ pbAttempts' = pbAttempts + 1
    /\ UNCHANGED <<pbChannel, pbMessages, pbI, pbRetryCount, pbCurrentDelay,
                   pbProcessedCount, pbFiles, pbAggregate, pbWriteFailed, pbOutcome,
                   pbRun, pbDoneBefore>>
    /\ UNCHANGED <<now, ckVars, tlVars, rtVars, gmVars, exVars, lkVars, rdVars, ftVars>>

\* the sleep of line 102 ends: the for loop starts the next batch, lines 56-70
BulkBatchSleepDone ==
    /\ pbPc = "batchSleep"
    /\ pbPc' = "attempt"
    /\ pbI' = pbI + 1
    /\ pbRetryCount' = 0
    /\ pbAttempts' = 1
    /\ UNCHANGED <<pbChannel, pbMessages, pbCurrentDelay, pbProcessedCount, pbFiles,
                   pbAggregate, pbWriteFailed, pbOutcome, pbRun, pbDoneBefore>>
    /\ UNCHANGED <<now, ckVars, tlVars, rtVars, gmVars, exVars, lkVars, rdVars, ftVars>>

\* mergeBatchResults, lines 106-112 and 127-144: it returns after
\* saveAIInvestmentData wrote the summary, or the write throws into the
\* outer catch of line 110
BulkMerged(written) ==
    /\ pbPc = "merging"
    /\ pbPc' = "done"
    /\ pbAggregate' = IF written
                      THEN <<SavedSummary(ConcatFiles(pbFiles, BatchCount(pbMessages)))>>
                      ELSE pbAggregate
    /\ UNCHANGED <<pbChannel, pbMessages, pbI, pbRetryCount, pbCurrentDelay,
                   pbProcessedCount, pbFiles, pbAttempts, pbWriteFailed, pbOutcome,
                   pbRun, pbDoneBefore>>
    /\ UNCHANGED <<now, ckVars, tlVars, rtVars, gmVars, exVars, lkVars, rdVars, ftVars>>

\* the batch indices whose processing completed in this run
CompletedBatches == { b \in 0..(Len(pbOutcome) - 1) : pbOutcome[b + 1] = "ok" }

\* the process is interrupted during a run, and is then ready to be restarted
BulkInterrupted ==
    /\ pbPc \notin {"idle", "done"}
    /\ pbRun < MaxRuns
    /\ pbPc' = "idle"
    /\ pbRun' = pbRun + 1
    /\ pbDoneBefore' = pbDoneBefore \cup CompletedBatches
    /\ UNCHANGED <<pbChannel, pbMessages, pbI, pbRetryCount, pbCurrentDelay,
                   pbProcessedCount, pbFiles, pbAggregate, pbAttempts, pbWriteFailed,
                   pbOutcome>>
    /\ UNCHANGED <<now, ckVars, tlVars, rtVars, gmVars, exVars, lkVars, rdVars, ftVars>>

PbInit ==
    /\ pbPc = "idle"
    /\ pbChannel = << >>
    /\ pbMessages = 0
    /\ pbI = 0
    /\ pbRetryCount = 0
    /\ pbCurrentDelay = DELAY_BETWEEN_BATCHES * DelayScale
    /\ pbProcessedCount = 0
    /\ pbFiles = {}
    /\ pbAggregate = << >>
    /\ pbAttempts = 0
    /\ pbWriteFailed = FALSE
    /\ pbOutcome = << >>
    /\ pbRun = 1
    /\ pbDoneBefore = {}

PbNext ==
    \/ \E c \in Channels : BulkStart(c)
    \/ BulkFetchFails
    \/ \E n \in FetchedLengths : BulkFetched(n)
    \/ \E investments \in BatchOutputs : BulkAttemptSucceeds(investments)
    \/ \E cause \in FailureCauses : BulkAttemptFails(cause)
    \/ BulkRetrySleepDone
    \/ BulkBatchSleepDone
    \/ \E written \in BOOLEAN : BulkMerged(written)
    \/ BulkInterrupted

-----------------------------------------------------------------------------
(* The deterministic engine: src/investmentParser.ts *)

\* A message text is a sequence of lines and a line a sequence of tokens: the
\* characters the patterns tell apart, and whole words.
IsDigit(t) == t \in Digits

\* [\d\.]
IsDigitOrDot(t) == t \in Digits \/ t = "."

\* \s
IsSpace(t) == t \in {" ", "\n"}

\* tokens of one character; a word has at least two
SingleChars ==
    Digits \cup {"$", ".", " ", "\n", "-", ":", "(", ",", "EnDash", "M", "B", "K", "k", "T"}

\* the length of a token, up to five: the parser compares lengths with 1, 2
\* and 5 only, or the lengths of a string and of its prefix
TokenLen(t) ==
    CASE t \in SingleChars -> 1
      [] t \in {"is", "by", "ZZ", "gm"} -> 2
      [] t \in {"Alt", "DRX", "Bob", "Big", "Rex", "Top", "has", "for", "May", "by:"} -> 3
      [] t \in {"Acme", "Beta", "More", "Seed", "June"} -> 4
      [] OTHER -> 5

\* String.prototype.length, as far as the comparisons of the parser need it
RECURSIVE CharLen(_)
CharLen(s) == IF Len(s) = 0 THEN 0 ELSE TokenLen(Head(s)) + CharLen(Tail(s))

\* the letter (M|B) matches, case-insensitively, at the start of the token,
\* in upper case; "" when it does not match there
MillionOrBillion(t) ==
    CASE t \in {"M", "More"} -> "M"
      [] t \in {"B", "Big", "by"} -> "B"
      [] OTHER -> ""

\* the token holds a 'b' or a 'B': toLowerCase().includes('b')
HasLetterB(t) == t \in {"B", "Big", "by", "by:", "Bob"}

\* text.includes(word) on a sequence of tokens
TextIncludes(s, word) == \E i \in 1..Len(s) : Holds(s[i], word)

\* the text as one string: its lines joined with "\n"
RECURSIVE Flat(_)
Flat(lines) ==
    IF Len(lines) = 0 THEN << >>
    ELSE IF Len(lines) = 1 THEN lines[1]
    ELSE lines[1] \o <<"\n">> \o Flat(Tail(lines))

\* String.prototype.trim on tokens
RECURSIVE TrimTokens(_)
TrimTokens(s) ==
    IF Len(s) = 0 THEN s
    ELSE IF IsSpace(Head(s)) THEN TrimTokens(Tail(s))
    ELSE IF IsSpace(s[Len(s)]) THEN TrimTokens(SubSeq(s, 1, Len(s) - 1))
    ELSE s

\* \w: a token of letters or digits
IsWordChars(t) ==
    t \notin {"$", ".", " ", "\n", "-", ":", "(", ",", "EnDash", "ZZ", "Valuation:",
               "About:", "by:"}

\* the first position from i on where the tokens stop satisfying the class:
\* the end of a greedy run
RECURSIVE RunEnd(_, _, _)
RunEnd(s, i, class) ==
    IF i > Len(s) THEN i
    ELSE IF (CASE class = "space" -> IsSpace(s[i])
               [] class = "digit" -> IsDigit(s[i])
               [] class = "digitOrDot" -> IsDigitOrDot(s[i])
               [] class = "nonSpace" -> ~IsSpace(s[i])
               [] class = "wordChars" -> IsWordChars(s[i])
               [] class = "nonSpecial" -> s[i] \notin {"-", ":", "$", "\n"}
               [] class = "nonSpaceNonDollar" -> ~IsSpace(s[i]) /\ s[i] # "$"
               [] OTHER -> FALSE)
         THEN RunEnd(s, i + 1, class)
         ELSE i

\* the least element of a non-empty set of positions
MinOf(S) == CHOOSE i \in S : \A j \in S : i <= j

\* the leftmost of the positions where a pattern matches, 0 when there is
\* none
Leftmost(hits) == IF hits = {} THEN 0 ELSE MinOf(hits)

\* the last of the positions, 0 when there is none
Last(hits) == IF hits = {} THEN 0 ELSE CHOOSE i \in hits : \A j \in hits : j <= i

NoMatch == [found |-> FALSE]

\* the token K matches, case-insensitively, at its start
IsK(t) == t \in {"K", "k"}

\* /\$\s*([\d\.]+)\s*(M|B)/i (unit "MB") and /\$\s*([\d\.]+)\s*K/i (unit
\* "K"): the match with the digits from a to b - 1 and the letter at c
AmountMatch(s, a, b, c, unit) ==
    IF /\ b > a
       /\ c <= Len(s)
       /\ IF unit = "K" THEN IsK(s[c]) ELSE MillionOrBillion(s[c]) # ""
    THEN [found |-> TRUE, digits |-> SubSeq(s, a, b - 1),
          letter |-> IF unit = "K" THEN "K" ELSE MillionOrBillion(s[c])]
    ELSE NoMatch

\* ... \s* after the digits
AmountAfterDigits(s, a, b, unit) == AmountMatch(s, a, b, RunEnd(s, b, "space"), unit)

\* ... [\d\.]+ after the spaces
AmountAfterSpaces(s, a, unit) ==
    AmountAfterDigits(s, a, RunEnd(s, a, "digitOrDot"), unit)

\* the match of the pattern at the '$' of position p; none for p = 0
AmountAfterDollar(s, p, unit) ==
    IF p = 0 THEN NoMatch ELSE AmountAfterSpaces(s, RunEnd(s, p + 1, "space"), unit)

\* s.match(pattern): the leftmost match
DollarMatch(s, unit) ==
    AmountAfterDollar(
        s, Leftmost({p \in 1..Len(s) : s[p] = "$" /\ AmountAfterDollar(s, p, unit).found}),
        unit)

\* parseFloat of digits before and after the point: [nan, n, scale] with the
\* value n / scale
ParseFloatOf(intDigits, fracDigits) ==
    IF Len(intDigits) = 0 /\ Len(fracDigits) = 0
    THEN [nan |-> TRUE, n |-> 0, scale |-> 1]
    ELSE [nan |-> FALSE,
          n |-> ValueOfDigits(intDigits \o fracDigits),
          scale |-> 10 ^ Len(fracDigits)]

\* the integer part ends before i, the fraction before j
ParseFloatAt(ds, i, j) ==
    ParseFloatOf(SubSeq(ds, 1, i - 1), IF j > i THEN SubSeq(ds, i + 1, j - 1) ELSE << >>)

ParseFloatFrom(ds, i) ==
    ParseFloatAt(ds, i, IF i <= Len(ds) /\ ds[i] = "." THEN RunEnd(ds, i + 1, "digit") ELSE i)

\* parseFloat: the longest prefix that is a number
ParseFloat(ds) == ParseFloatFrom(ds, RunEnd(ds, 1, "digit"))

\* hundredths as a string with two decimals
TwoDecimals(hundredths) ==
    DigitsOf(hundredths \div 100) \o <<".">>
    \o <<DigitChar((hundredths \div 10) % 10), DigitChar(hundredths % 10)>>

\* (x / 1000).toFixed(2): "NaN", or the hundredths rounded to nearest
ToFixed2OfThousandth(x) ==
    IF x.nan THEN <<"NaN">>
    ELSE TwoDecimals((2 * x.n + 10 * x.scale) \div (20 * x.scale))

\* the amount of a match: its digits and its letter, lines 388 and 401
AmountOf(match) == match.digits \o <<match.letter>>

\* lines 387-410, with the three matches
FundingAmountOf(firstLineDollarMatch, kMatch, dollarMatch) ==
    IF firstLineDollarMatch.found THEN AmountOf(firstLineDollarMatch)
    ELSE IF kMatch.found
         THEN ToFixed2OfThousandth(ParseFloat(kMatch.digits)) \o <<"M">>
    ELSE IF dollarMatch.found THEN AmountOf(dollarMatch)
    ELSE <<"Undisclosed">>

\* lines 386-399, with the first line
FundingAmountIn(flat, firstLine) ==
    FundingAmountOf(DollarMatch(firstLine, "MB"), DollarMatch(firstLine, "K"),
                    DollarMatch(flat, "MB"))

\* extractFundingAmount, lines 381-411
extractFundingAmount(text) == FundingAmountIn(Flat(text), TrimTokens(text[1]))

\* ---- extractCompanyName, lines 260-325

\* [A-Za-z\-]+ : a word
IsWord(t) == t \notin (Digits \cup {"$", ".", " ", "\n", ":", "(", ",", "EnDash", "ZZ"})

\* ([A-Za-z\-]+(?:\s+[A-Za-z]+)?)\s+Round from position w on: one word or
\* two, and "Round"
TitleWords(fl, w) ==
    \/ /\ w + 2 <= Len(fl)
       /\ IsWord(fl[w]) /\ fl[w + 1] = " " /\ fl[w + 2] = "Round"
    \/ /\ w + 4 <= Len(fl)
       /\ IsWord(fl[w]) /\ fl[w + 1] = " " /\ IsWord(fl[w + 2])
       /\ fl[w + 3] = " " /\ fl[w + 4] = "Round"

\* line 265, the amount: \$?([\d\.]+)M?\s+ and the words; the digits run from
\* d to e - 1, the spaces from m to w - 1
TitleAfterAmount(fl, m, w) == w > m /\ TitleWords(fl, w)

TitleAfterM(fl, m) == TitleAfterAmount(fl, m, RunEnd(fl, m, "space"))

TitleAfterDigits(fl, d, e) ==
    e > d /\ TitleAfterM(fl, IF e <= Len(fl) /\ fl[e] = "M" THEN e + 1 ELSE e)

TitleAfterDollar(fl, d) == TitleAfterDigits(fl, d, RunEnd(fl, d, "digitOrDot"))

\* lines 265 and 271 after the company, which ends before i: \s+ up to a,
\* then the amount and the words, or the words alone
TitleAfterSpaces(fl, i, a) ==
    /\ a > i
    /\ \/ TitleAfterDollar(fl, IF a <= Len(fl) /\ fl[a] = "$" THEN a + 1 ELSE a)
       \/ TitleWords(fl, a)

TitleAfterCompany(fl, i) == TitleAfterSpaces(fl, i, RunEnd(fl, i, "space"))

\* the patterns match at position p: the prefix "ZZ" (the six characters
\* before the company in both patterns), and a company that ends before e
TitleAt(fl, p, e) == fl[p] = "ZZ" /\ e > p + 1 /\ TitleAfterCompany(fl, e)

\* match[1] of the match at p
TitleCompanyAt(fl, p) ==
    IF p = 0 THEN NoMatch
    ELSE [found |-> TRUE,
          company |-> SubSeq(fl, p + 1, RunEnd(fl, p + 1, "nonSpaceNonDollar") - 1)]

\* lines 265-274: titleMatchWithAmount, or else titleMatchWithRound
TitleMatch(fl) ==
    TitleCompanyAt(
        fl, Leftmost({p \in 1..Len(fl) :
                        TitleAt(fl, p, RunEnd(fl, p + 1, "nonSpaceNonDollar"))}))

\* lines 281-291: the company of the About text, whose first term ends
\* before e
AboutCompany(aboutText, e) ==
    IF \/ /\ e > 1 /\ e + 2 <= Len(aboutText)
          /\ aboutText[e] = " " /\ aboutText[e + 1] = "is" /\ aboutText[e + 2] = " "
       \/ CharLen(SubSeq(aboutText, 1, e - 1)) > 1
    THEN [found |-> TRUE, company |-> SubSeq(aboutText, 1, e - 1)]
    ELSE NoMatch

\* the line after the k-th line is the About text
AboutAt(text, k) ==
    IF k = 0 THEN NoMatch
    ELSE AboutCompany(text[k + 1], RunEnd(text[k + 1], 1, "nonSpace"))

\* lines 277-292: /About:\s*\n([^\n]+)/
AboutMatch(text) ==
    AboutAt(text, Leftmost({k \in 1..(Len(text) - 1) :
                              /\ Len(text[k]) > 0
                              /\ text[k][Len(text[k])] = "About:"
                              /\ Len(text[k + 1]) > 0}))

\* the company that starts at a
HasAcquiredFrom(s, a) ==
    [found |-> TRUE, company |-> SubSeq(s, a, RunEnd(s, a, "nonSpace") - 1)]

HasAcquiredAt(s, p) ==
    IF p = 0 THEN NoMatch ELSE HasAcquiredFrom(s, RunEnd(s, p + 3, "space"))

\* line 296: /has acquired\s+([^\s\n]+)/i
HasAcquiredMatch(s) ==
    HasAcquiredAt(s, Leftmost({p \in 1..(Len(s) - 3) :
                                 /\ s[p] = "has" /\ s[p + 1] = " " /\ s[p + 2] = "acquired"
                                 /\ IsSpace(s[p + 3])
                                 /\ RunEnd(s, p + 3, "space") <= Len(s)}))

\* the start of the line that holds position p of the flat text
LineStart(s, p) == Last({q \in 1..(p - 1) : s[q] = "\n"}) + 1

AcquiredByAt(s, p) ==
    IF p = 0 THEN NoMatch
    ELSE [found |-> TRUE, company |-> TrimTokens(SubSeq(s, LineStart(s, p), p - 1))]

\* line 302: /([^\n]+)\s+acquired by:/i, the text of the line before it
AcquiredByMatch(s) ==
    AcquiredByAt(s, Leftmost({p \in 3..(Len(s) - 2) :
                                /\ s[p] = "acquired" /\ s[p + 1] = " " /\ s[p + 2] = "by:"
                                /\ s[p - 1] = " "
                                /\ LineStart(s, p) < p - 1}))

BeforeHasAcquiredAt(s, p) ==
    IF p = 0 THEN NoMatch ELSE [found |-> TRUE, company |-> <<s[p - 2]>>]

\* line 308: /([^\s\n]+)\s+has acquired/i
BeforeHasAcquiredMatch(s) ==
    BeforeHasAcquiredAt(s, Leftmost({p \in 3..(Len(s) - 2) :
                                       /\ s[p] = "has" /\ s[p + 1] = " "
                                       /\ s[p + 2] = "acquired"
                                       /\ IsSpace(s[p - 1]) /\ ~IsSpace(s[p - 2])}))

\* line 319: the first word counts when it has more than one character
FirstWordOf(first) == IF CharLen(first) > 1 THEN first ELSE << >>

\* line 318: /^([^$\s]+(?:\.[^\s]+)?)/
FirstWordIn(cleaned) ==
    FirstWordOf(SubSeq(cleaned, 1, RunEnd(cleaned, 1, "nonSpaceNonDollar") - 1))

\* lines 315-322: the first word of the first line
FirstWord(fl) ==
    FirstWordIn(TrimTokens(IF Len(fl) > 0 /\ fl[1] = "ZZ" THEN Tail(fl) ELSE fl))

\* the order in which extractCompanyName tries its matches; "" is the empty
\* sequence
CompanyNameOf(title, about, hasAcquired, acquiredBy, beforeHasAcquired, firstWord, isAcquisition) ==
    IF title.found THEN TrimTokens(title.company)
    ELSE IF about.found THEN TrimTokens(about.company)
    ELSE IF isAcquisition /\ hasAcquired.found THEN hasAcquired.company
    ELSE IF isAcquisition /\ acquiredBy.found THEN acquiredBy.company
    ELSE IF isAcquisition /\ beforeHasAcquired.found THEN beforeHasAcquired.company
    ELSE firstWord

CompanyNameIn(text, flat, firstLine, isAcquisition) ==
    CompanyNameOf(TitleMatch(firstLine), AboutMatch(text), HasAcquiredMatch(flat),
                  AcquiredByMatch(flat), BeforeHasAcquiredMatch(flat),
                  FirstWord(firstLine), isAcquisition)

\* extractCompanyName, lines 260-325
extractCompanyName(text, isAcquisition) ==
    CompanyNameIn(text, Flat(text), TrimTokens(text[1]), isAcquisition)

\* lines 530-534: /Valuation:\s+\$?([\d\.]+)M/i with the digits from d to
\* e - 1
ValuationDigits(s, d, e) ==
    IF e > d /\ e <= Len(s) /\ MillionOrBillion(s[e]) = "M"
    THEN [found |-> TRUE, digits |-> SubSeq(s, d, e - 1)]
    ELSE NoMatch

ValuationAfterDollar(s, d) == ValuationDigits(s, d, RunEnd(s, d, "digitOrDot"))

ValuationAfterSpaces(s, p, a) ==
    IF a > p + 1
    THEN ValuationAfterDollar(s, IF a <= Len(s) /\ s[a] = "$" THEN a + 1 ELSE a)
    ELSE NoMatch

ValuationAt(s, p) ==
    IF p = 0 THEN NoMatch
    ELSE IF s[p] # "Valuation:" THEN NoMatch
    ELSE ValuationAfterSpaces(s, p, RunEnd(s, p + 1, "space"))

\* text.match(/Valuation:\s+\$?([\d\.]+)M/i)
ValuationMatch(s) ==
    ValuationAt(s, Leftmost({p \in 1..Len(s) : ValuationAt(s, p).found}))

\* ---- parseWeeklyRoundup, lines 101-254

\* lines 87-92: the six patterns, each of which needs "Rounds Of ... Week"
\* or "Best Funding Rounds Of" on one line
isWeeklyRoundup(text) ==
    \E k \in 1..Len(text) : \E i \in 1..Len(text[k]) :
        text[k][i] \in {"Rounds Of This Week", "Best Funding Rounds Of"}

\* line 464: the monthly roundup
IsMonthlyRoundup(flat) ==
    /\ TextIncludes(flat, "Funding Rounds Of")
    /\ \E i \in 1..Len(flat) : flat[i] \in {"April", "May", "June"}

\* line.replace(/^[^\w]+/, '')
RECURSIVE StripNonWord(_)
StripNonWord(s) ==
    IF Len(s) > 0 /\ ~IsWordChars(Head(s)) THEN StripNonWord(Tail(s)) ELSE s

\* line 161: line.replace(/^[^\w]+/, '').trim()
CleanLine(line) == TrimTokens(StripNonWord(line))

\* lines 127-129: /([^-:$\n]+)\s*[-:]\s*\$?([\d\.]+)M?B?/i with the company
\* from b to e - 1, the separator at e and the digits from d to f - 1
SeparatorValue(s, b, e, d, f) ==
    IF b < e /\ s[e] \in {"-", ":"} /\ f > d
    THEN [found |-> TRUE, company |-> SubSeq(s, b, e - 1), value |-> SubSeq(s, d, f - 1)]
    ELSE NoMatch

SeparatorAfterDollar(s, b, e, d) == SeparatorValue(s, b, e, d, RunEnd(s, d, "digitOrDot"))

SeparatorAfterSpaces(s, b, e, a) ==
    SeparatorAfterDollar(s, b, e, IF a <= Len(s) /\ s[a] = "$" THEN a + 1 ELSE a)

\* the start of the run of [^-:$\n] that ends before position e
SpecialRunStart(s, e) == Last({q \in 1..(e - 1) : s[q] \in {"-", ":", "$", "\n"}}) + 1

\* the match whose separator is at e; none for e = 0
SeparatorMatchAt(s, e) ==
    IF e = 0 THEN NoMatch
    ELSE SeparatorAfterSpaces(s, SpecialRunStart(s, e), e, RunEnd(s, e + 1, "space"))

\* the leftmost match of the pattern of lines 127-129
SeparatorMatch(s) ==
    SeparatorMatchAt(s, Leftmost({e \in 1..Len(s) : SeparatorMatchAt(s, e).found}))

\* the start of the run of [^\s] that ends before position a
WordStart(s, a) == Last({q \in 1..(a - 1) : IsSpace(s[q])}) + 1

\* line 130: /([^\s]+)\s+\$?([\d\.]+)M?B?/i with the spaces from a on and the
\* digits from d to f - 1
SpaceValue(s, a, d, f) ==
    IF IsSpace(s[a]) /\ a > 1 /\ ~IsSpace(s[a - 1]) /\ f > d
    THEN [found |-> TRUE, company |-> SubSeq(s, WordStart(s, a), a - 1),
          value |-> SubSeq(s, d, f - 1)]
    ELSE NoMatch

SpaceAfterDollar(s, a, d) == SpaceValue(s, a, d, RunEnd(s, d, "digitOrDot"))

SpaceAfterSpaces(s, a, b) ==
    SpaceAfterDollar(s, a, IF b <= Len(s) /\ s[b] = "$" THEN b + 1 ELSE b)

\* the match whose spaces start at a; none for a = 0
SpaceMatchAt(s, a) ==
    IF a = 0 THEN NoMatch ELSE SpaceAfterSpaces(s, a, RunEnd(s, a, "space"))

\* the leftmost match of the pattern of line 130
SpaceMatch(s) == SpaceMatchAt(s, Leftmost({a \in 1..Len(s) : SpaceMatchAt(s, a).found}))

\* cleanLine.indexOf('$'), from 1; 0 when absent
DollarIndex(s) == Leftmost({p \in 1..Len(s) : s[p] = "$"})

\* s.startsWith(prefix)
StartsWith(s, prefix) == Len(prefix) <= Len(s) /\ SubSeq(s, 1, Len(prefix)) = prefix

\* lines 173-175
TRexOrCompany(s, company) ==
    IF company = <<"T">> /\ \E p \in 1..(Len(s) - 2) : SubSeq(s, p, p + 2) = <<"T", "-", "Rex">>
    THEN <<"T", "-", "Rex">> ELSE company

\* lines 178-183
FullNameOrCompany(possibleFullName, company, dollarIndex) ==
    IF /\ dollarIndex > 1
       /\ CharLen(possibleFullName) > CharLen(company)
       /\ StartsWith(possibleFullName, company)
    THEN possibleFullName ELSE company

\* lines 169-183: the company of a matched line
MatchedCompany(s, match) ==
    FullNameOrCompany(TrimTokens(SubSeq(s, 1, DollarIndex(s) - 1)),
                      TRexOrCompany(s, TrimTokens(match.company)),
                      DollarIndex(s))

\* lines 187 and 227: the value with its suffix
WithSuffix(s, value) ==
    value \o <<IF \E p \in 1..Len(s) : HasLetterB(s[p]) THEN "B" ELSE "M">>

\* the words of s: s.split(/\s+/) of a trimmed s
RECURSIVE Words(_)
WordsAfter(s, e) == <<SubSeq(s, 1, e - 1)>> \o Words(TrimTokens(SubSeq(s, e, Len(s))))

Words(s) == IF Len(s) = 0 THEN << >> ELSE WordsAfter(s, RunEnd(s, 1, "nonSpace"))

\* /^[A-Z][a-z]*$/ on one word
IsCapitalised(w) ==
    /\ Len(w) = 1
    /\ w[1] \in {"Acme", "Alt", "Beta", "Big", "Bob", "More", "Top", "Seed", "Raised", "Round",
                 "Funding", "Rex", "April", "May", "June", "M", "B", "K", "T"}

\* /\$\s?([\d\.]+)M?B?/i, line 224: where the digits start after the '$' of
\* position p
LooseValueStart(s, p) == IF p + 1 <= Len(s) /\ IsSpace(s[p + 1]) THEN p + 2 ELSE p + 1

LooseValueFrom(s, v) ==
    [found |-> TRUE, value |-> SubSeq(s, v, RunEnd(s, v, "digitOrDot") - 1)]

LooseAt(s, p) == IF p = 0 THEN NoMatch ELSE LooseValueFrom(s, LooseValueStart(s, p))

LooseDollarMatch(s) ==
    LooseAt(s, Leftmost({p \in 1..Len(s) :
                           /\ s[p] = "$"
                           /\ RunEnd(s, LooseValueStart(s, p), "digitOrDot")
                                 > LooseValueStart(s, p)}))

\* lines 208-220: the company of the words before the '$'
FallbackCompany(companyWords) ==
    IF Len(companyWords) = 0 THEN << >>
    ELSE IF /\ Len(companyWords) >= 2
            /\ \/ companyWords[1] \in {<<"Alt">>, <<"T">>}
               \/ IsCapitalised(companyWords[1])
         THEN companyWords[1] \o <<" ">> \o companyWords[2]
         ELSE companyWords[1]

\* lines 201-233, with the text before the '$', the company and the match of
\* line 224
FallbackOf(s, prefix, company, amountMatch) ==
    IF /\ DollarIndex(s) > 0
       /\ \E p \in 1..Len(s) : IsDigit(s[p])
       /\ CharLen(prefix) > 2
       /\ CharLen(company) > 1
       /\ amountMatch.found
    THEN [found |-> TRUE, company |-> company, value |-> amountMatch.value]
    ELSE NoMatch

FallbackIn(s, prefix) ==
    FallbackOf(s, prefix, FallbackCompany(Words(TrimTokens(prefix))), LooseDollarMatch(s))

\* lines 201-236: the pair of a line no pattern matched
FallbackMatch(s) == FallbackIn(s, SubSeq(s, 1, DollarIndex(s) - 1))

\* lines 165-166: the first pattern that matches
FirstFound(first, second) == IF first.found THEN first ELSE second

\* lines 167-234: the pair of a clean line, from the match of a pattern or
\* else from the general extraction
PairOf(s, match, fallback) ==
    IF match.found
    THEN [found |-> TRUE, company |-> MatchedCompany(s, match),
          amount |-> WithSuffix(s, match.value)]
    ELSE IF fallback.found
         THEN [found |-> TRUE, company |-> fallback.company,
               amount |-> WithSuffix(s, fallback.value)]
    ELSE NoMatch

PairIn(s) == PairOf(s, FirstFound(SeparatorMatch(s), SpaceMatch(s)), FallbackMatch(s))

\* lines 154-237 for one line: the company and the amount it adds, if any
LinePair(line) ==
    IF \/ CharLen(line) < 5
       \/ TextIncludes(line, "Round") \/ TextIncludes(line, "Week")
       \/ TextIncludes(line, "Total")
    THEN NoMatch
    ELSE PairIn(CleanLine(line))

\* lines 154-237: the companies and the amounts, line after line; a company
\* that is already listed adds nothing (lines 190 and 229)
RECURSIVE RoundupPairs(_, _, _)
AddPair(lines, companies, amounts, pair) ==
    IF pair.found /\ \A k \in 1..Len(companies) : companies[k] # pair.company
    THEN RoundupPairs(Tail(lines), Append(companies, pair.company),
                      Append(amounts, pair.amount))
    ELSE RoundupPairs(Tail(lines), companies, amounts)

RoundupPairs(lines, companies, amounts) ==
    IF Len(lines) = 0 THEN [companies |-> companies, amounts |-> amounts]
    ELSE AddPair(lines, companies, amounts, LinePair(Head(lines)))

\* line 134: /(\w+)\s+acquired\s+(\w+)(?:\s+for\s+\$?([\d\.]+)B?M?)?/gi with
\* "acquired" at p, the company from a to e - 1, the digits (if hasFor) from
\* d to h - 1, and its last position
AcquisitionMatch(s, p, a, e, hasFor, d, h, last) ==
    [found |-> TRUE,
     acquirer |-> <<s[p - 2]>>,
     company |-> SubSeq(s, a, e - 1),
     hasAmount |-> hasFor,
     amount |-> IF hasFor
                THEN SubSeq(s, d, h - 1)
                     \o <<IF \E q \in (p - 2)..last : HasLetterB(s[q]) THEN "B" ELSE "M">>
                ELSE << >>,
     next |-> last + 1]

\* M? from position i on: the position after it
AfterLetter(s, i, letter) == IF i <= Len(s) /\ s[i] = letter THEN i + 1 ELSE i

AcquisitionWithAmount(s, p, a, e, d, h) ==
    AcquisitionMatch(s, p, a, e, TRUE, d, h,
                     AfterLetter(s, AfterLetter(s, h, "B"), "M") - 1)

AcquisitionWithoutAmount(s, p, a, e) == AcquisitionMatch(s, p, a, e, FALSE, e, e, e - 1)

AcquisitionDigits(s, p, a, e, d, h) ==
    IF h > d THEN AcquisitionWithAmount(s, p, a, e, d, h)
    ELSE AcquisitionWithoutAmount(s, p, a, e)

AcquisitionAfterFor(s, p, a, e, f, g) ==
    IF g > f + 1
    THEN AcquisitionDigits(s, p, a, e, AfterLetter(s, g, "$"),
                           RunEnd(s, AfterLetter(s, g, "$"), "digitOrDot"))
    ELSE AcquisitionWithoutAmount(s, p, a, e)

AcquisitionAfterCompany(s, p, a, e, f) ==
    IF f > e /\ f <= Len(s) /\ s[f] = "for"
    THEN AcquisitionAfterFor(s, p, a, e, f, RunEnd(s, f + 1, "space"))
    ELSE AcquisitionWithoutAmount(s, p, a, e)

AcquisitionCompany(s, p, a, e) ==
    IF e > a THEN AcquisitionAfterCompany(s, p, a, e, RunEnd(s, e, "space")) ELSE NoMatch

AcquisitionAfterAcquired(s, p, a) ==
    IF a > p + 1 THEN AcquisitionCompany(s, p, a, RunEnd(s, a, "wordChars")) ELSE NoMatch

\* the match at the "acquired" of position p, the acquirer not before
\* position from; none for p = 0
AcquisitionAt(s, p, from) ==
    IF p = 0 THEN NoMatch
    ELSE IF /\ s[p] = "acquired"
            /\ p - 2 >= from /\ IsSpace(s[p - 1]) /\ IsWordChars(s[p - 2])
         THEN AcquisitionAfterAcquired(s, p, RunEnd(s, p + 1, "space"))
    ELSE NoMatch

\* lines 137-151: the exec loop, from the regular expression's lastIndex on
RECURSIVE Acquisitions(_, _)
AcquisitionsWith(s, match) ==
    IF ~match.found THEN << >>
    ELSE <<[company |-> match.company, acquirer |-> match.acquirer,
            hasAmount |-> match.hasAmount, amount |-> match.amount]>>
         \o Acquisitions(s, match.next)

Acquisitions(s, from) ==
    AcquisitionsWith(
        s, AcquisitionAt(s, Leftmost({p \in 1..Len(s) : AcquisitionAt(s, p, from).found}),
                         from))

\* what parseInvestmentData returns when it returns null
NoParse ==
    [type |-> "none", company |-> JsUndefined, amount |-> JsUndefined,
     valuation |-> JsUndefined, acquisitions |-> << >>, date |-> ""]

\* a list of strings as a JavaScript array
StringArray(list) == JsArray([k \in 1..Len(list) |-> JsString(list[k])])

\* lines 243-253: the record of a roundup
RoundupRecord(pairs, acquisitions, date) ==
    [type |-> "roundup",
     company |-> StringArray(pairs.companies),
     amount |-> StringArray(pairs.amounts),
     valuation |-> JsUndefined,
     acquisitions |-> acquisitions,
     date |-> date]

\* parseWeeklyRoundup, lines 101-254 (investors, links and rawText left out);
\* acquisitionRegex is created by the call, so its lastIndex starts at 0
parseWeeklyRoundup(text, date) ==
    RoundupRecord(RoundupPairs(text, << >>, << >>), Acquisitions(Flat(text), 1), date)

\* ---- parseInvestmentData, lines 450-551

\* line 454: the message looks like a funding announcement
LooksLikeFunding(flat) ==
    \/ TextIncludes(flat, "Round")
    \/ TextIncludes(flat, "acquired")
    \/ TextIncludes(flat, "Funding")
    \/ TextIncludes(flat, "$")

\* a date that is kept from the first call on
DateOfFirstCall(date, calls) == IF calls = 0 THEN date ELSE "stale"

\* the date of the record: the date of the message, lines 451 and 546;
\* calls is the number of earlier calls, which the code keeps no trace of
RecordDate(date, calls) == date

\* lines 483-485
AltDrxOrCompany(flat, company) ==
    IF company = <<"Alt">> /\ \E p \in 1..(Len(flat) - 2) :
                                 SubSeq(flat, p, p + 2) = <<"Alt", " ", "DRX">>
    THEN <<"Alt", " ", "DRX">> ELSE company

\* lines 530-550: the record of a message that is not a roundup (round,
\* investors, links and rawText left out)
RegularRecord(isAcquisition, company, amount, valuationMatch, date) ==
    [type |-> IF isAcquisition THEN "acquisition" ELSE "investment",
     company |-> JsString(company),
     amount |-> JsString(amount),
     valuation |-> IF valuationMatch.found
                   THEN JsString(<<"$">> \o valuationMatch.digits \o <<"M">>)
                   ELSE JsUndefined,
     acquisitions |-> << >>,
     date |-> date]

\* lines 477-550, with the company extractCompanyName found
ParseWithCompany(text, flat, isAcquisition, company, date) ==
    IF Len(company) = 0 THEN NoParse
    ELSE RegularRecord(isAcquisition, AltDrxOrCompany(flat, company),
                       extractFundingAmount(text), ValuationMatch(flat), date)

\* lines 470-474
ParseRegular(text, flat, isAcquisition, date) ==
    ParseWithCompany(text, flat, isAcquisition, extractCompanyName(text, isAcquisition),
                     date)

\* lines 454-551, with the text as one string
ParseFlat(text, flat, date) ==
    IF ~LooksLikeFunding(flat) THEN NoParse
    ELSE IF isWeeklyRoundup(text) \/ IsMonthlyRoundup(flat)
         THEN parseWeeklyRoundup(text, date)
    ELSE ParseRegular(text, flat,
                      TextIncludes(flat, "acquired") \/ TextIncludes(flat, "acquisition"),
                      date)

\* parseInvestmentData, lines 450-551
parseInvestmentData(text, date, calls) == ParseFlat(text, Flat(text), RecordDate(date, calls))

\* ---- the inputs of the two engines

\* the dates of the messages
Dates == {"2025-04-01", "2025-05-01"}

\* the lines the texts of the messages are made of
TitleLine == <<"Acme", " ", "Seed", " ", "Round">>

\* "Top 5 Rounds of This Week: Acme - $10M, Beta - $2.5M" on one line, the second dash an en dash;
\* "EnDash" is the dash before the second amount
HeadlineWithItems ==
    <<<<"Top", " ", "5", " ", "Rounds Of This Week", ":", " ",
        "Acme", " ", "-", " ", "$", "1", "0", "M", ",", " ",
        "Beta", " ", "EnDash", " ", "$", "2", ".", "5", "M">>>>

\* the texts of the messages, as sequences of lines
Texts ==
    { <<<<"ZZ", "Acme", " ", "$", "5", "M", " ", "Seed", " ", "Round">>>>,
      <<TitleLine, <<"Raised", " ", "$", "5", ".", " ", "More">>>>,
      <<TitleLine, <<"Valuation:", " ", "$", "1", "0", "0", "M">>>>,
      <<<<"Acme", " ", "$", "7", "5", "0", "K", " ", "Round">>>>,
      <<<<"Acme", " ", "$", ".", "K", " ", "Round">>>>,
      <<<<"Alt", " ", "DRX", " ", "$", "5", "M", " ", "Round">>>>,
      <<<<"Funding">>, <<"About:">>, <<"Acme", " ", "is", " ", "More">>>>,
      <<<<"Big", " ", "has", " ", "acquired", " ", "Acme">>>>,
      <<<<"$", "5", "M">>>>,
      <<<<"gm">>>>,
      <<<<"Rounds Of This Week">>>>,
      HeadlineWithItems,
      <<<<"Acme", " ", "raised", " ", "More">>>>,
      <<<<"Top", " ", "5", " ", "Round">>>>,
      <<<<"Rounds Of This Week">>, <<"Acme", " ", "-", " ", "$", "5", "M">>,
        <<"Bob", " ", "$", "2", "B">>>>,
      <<<<"Rounds Of This Week">>, <<"Acme", "-", "$", "5", "M">>,
        <<"Acme", ":", "$", "9", "M">>>>,
      <<<<"Rounds Of This Week">>, <<"Acme", "$", "5", "M">>>>,
      <<<<"Rounds Of This Week">>, <<"Bob", " ", "$", "5", "M">>>>,
      <<<<"Best Funding Rounds Of">>,
        <<"Big", " ", "acquired", " ", "Acme", " ", "for", " ", "$", "5", "M">>>> }

\* what the generation service answers: the responses above, and an object
\* for every body
Answers == Responses \cup {<<"{", b, "}">> : b \in BodyNames}

\* ---- extractInvestmentsWithAI and extractInvestmentData, message by message

\* extractInvestmentWithGemini, lines 330-379, for a message and the outcome
\* of its retry call: the record, or NoRecord for null
GeminiResult(text, retryThrew, answer) ==
    IF PassesPrefilter(text) /\ ExtractOutcome(retryThrew, answer, text) = "record"
    THEN ProcessedRecord(answer, text)
    ELSE NoRecord

\* a test that accepts every result
AcceptsAll(result) == TRUE

\* telegram.ts lines 639-646
AiAccepts(result) ==
    /\ result.type # "none"
    /\ result.company.t # "undefined"
    /\ \/ result.company.t = "string" /\ Len(result.company.s) > 0
       \/ result.company.t = "array" /\ Len(result.company.a) > 0

\* investmentParser.ts line 563
DetAccepts(result) ==
    /\ result.type # "none"
    /\ IF result.company.t = "string" THEN Len(result.company.s) > 0
       ELSE Len(result.company.a) > 0

\* the messages handed to extractInvestmentsWithAI: messages with a text, and
\* an item without a text property, such as a record of a batch file
AiMessages == { [text |-> t] : t \in Messages } \cup {RecordA}

\* a loop that starts the extraction of a message without awaiting the one
\* before
NotAwaited(inFlight) == TRUE

\* telegram.ts line 638: await extractInvestmentWithGemini(message); the loop
\* takes the next message when no extraction is in flight
Awaited(inFlight) == inFlight = 0

\* a loop that a raising message ends
EndsOnRaise(raised) == ~raised

\* the loop goes on after a message: the catch of telegram.ts lines 651-656
\* and of investmentParser.ts lines 566-569 takes every exception
GoesOn(raised) == TRUE

\* the outcome of the call after a message
OutcomeAfter(goesOn, outcome) == IF goesOn THEN outcome ELSE "raised"

\* extractInvestmentWithGemini(message) as the loop sees it: it raises on a
\* message without text (line 334); retry rethrows into the catch of line 370
\* when it gave up (retryThrew), which returns null
AiCallOf(message, retryThrew, answer) ==
    IF ExtractionRaises(message)
    THEN [raised |-> TRUE, gaveUp |-> FALSE, result |-> NoRecord]
    ELSE [raised |-> FALSE,
          gaveUp |-> retryThrew /\ PassesPrefilter(message.text),
          result |-> GeminiResult(message.text, retryThrew, answer)]

\* parseInvestmentData(message) as the loop sees it: it raises on a message
\* without text (line 454)
DetCallOf(hasText, text, date, calls) ==
    IF ~hasText
    THEN [text |-> << >>, date |-> date, raised |-> TRUE,
          looksLikeFunding |-> FALSE, isRoundup |-> FALSE, result |-> NoParse]
    ELSE [text |-> text, date |-> date, raised |-> FALSE,
          looksLikeFunding |-> LooksLikeFunding(Flat(text)),
          isRoundup |-> isWeeklyRoundup(text) \/ IsMonthlyRoundup(Flat(text)),
          result |-> parseInvestmentData(text, date, calls)]

\* the results that the loop pushed: the accepted ones, in the order of the calls
RECURSIVE Pushed(_, _)
Pushed(calls, dets) ==
    IF Len(calls) = 0 THEN << >>
    ELSE Pushed(SubSeq(calls, 1, Len(calls) - 1), dets)
            \o (IF /\ ~calls[Len(calls)].raised
                   /\ IF dets THEN DetAccepts(calls[Len(calls)].result)
                      ELSE AiAccepts(calls[Len(calls)].result)
                THEN <<calls[Len(calls)].result>> ELSE << >>)

ExInit ==
    /\ exEngine = "idle"
    /\ exLeft = 0
    /\ exTotal = 0
    /\ exOutcome = "none"
    /\ exInFlight = 0
    /\ exCurrent = << >>
    /\ aiCalls = << >>
    /\ aiInvestments = << >>
    /\ dpInvestments = << >>
    /\ dpCalls = << >>

\* a call of extractInvestmentsWithAI (telegram.ts line 622) or of
\* extractInvestmentData (investmentParser.ts line 557) with n messages
ExStart(engine, n) ==
    /\ exEngine = "idle"
    /\ exEngine' = engine
    /\ exLeft' = n
    /\ exTotal' = n
    /\ exOutcome' = "running"
    /\ exInFlight' = 0
    /\ exCurrent' = << >>
    /\ aiCalls' = << >>
    /\ aiInvestments' = << >>
    /\ dpInvestments' = << >>
    /\ dpCalls' = << >>
    /\ UNCHANGED <<now, ckVars, tlVars, rtVars, gmVars, pbVars, lkVars, rdVars, ftVars>>

\* telegram.ts lines 636-638: the loop takes the next message of the batch
\* and calls extractInvestmentWithGemini
AiCall(message) ==
    /\ exEngine = "ai"
    /\ exLeft > 0
    /\ Awaited(exInFlight)
    /\ exLeft' = exLeft - 1
    /\ exInFlight' = exInFlight + 1
    /\ exCurrent' = <<message>>
    /\ UNCHANGED <<exEngine, exTotal, exOutcome, aiCalls, aiInvestments, dpInvestments,
                   dpCalls>>
    /\ UNCHANGED <<now, ckVars, tlVars, rtVars, gmVars, pbVars, lkVars, rdVars, ftVars>>

\* telegram.ts lines 638-656: the extraction of the message returns or
\* raises, and the loop pushes the result or catches the error
AiExtract(retryThrew, answer) ==
    /\ exEngine = "ai"
    /\ exInFlight > 0
    /\ exInFlight' = exInFlight - 1
    /\ exCurrent' = << >>
    /\ aiCalls' = Append(aiCalls, AiCallOf(exCurrent[1], retryThrew, answer))
    /\ aiInvestments' =
          IF ~aiCalls'[Len(aiCalls')].raised /\ AiAccepts(aiCalls'[Len(aiCalls')].result)
          THEN Append(aiInvestments, aiCalls'[Len(aiCalls')].result)
          ELSE aiInvestments
    /\ exLeft' = IF GoesOn(aiCalls'[Len(aiCalls')].raised) THEN exLeft ELSE 0
    /\ exOutcome' = OutcomeAfter(GoesOn(aiCalls'[Len(aiCalls')].raised), exOutcome)
    /\ UNCHANGED <<exEngine, exTotal, dpInvestments, dpCalls>>
    /\ UNCHANGED <<now, ckVars, tlVars, rtVars, gmVars, pbVars, lkVars, rdVars, ftVars>>

\* investmentParser.ts lines 559-570: one message
DetExtract(hasText, text, date) ==
    /\ exEngine = "deterministic"
    /\ exLeft > 0
    /\ dpCalls' = Append(dpCalls, DetCallOf(hasText, text, date, Len(dpCalls)))
    /\ dpInvestments' =
          IF ~dpCalls'[Len(dpCalls')].raised /\ DetAccepts(dpCalls'[Len(dpCalls')].result)
          THEN Append(dpInvestments, dpCalls'[Len(dpCalls')].result)
          ELSE dpInvestments
    /\ exLeft' = IF GoesOn(dpCalls'[Len(dpCalls')].raised) THEN exLeft - 1 ELSE 0
    /\ exOutcome' = OutcomeAfter(GoesOn(dpCalls'[Len(dpCalls')].raised), exOutcome)
    /\ UNCHANGED <<exEngine, exTotal, exInFlight, exCurrent, aiCalls, aiInvestments>>
    /\ UNCHANGED <<now, ckVars, tlVars, rtVars, gmVars, pbVars, lkVars, rdVars, ftVars>>

\* telegram.ts line 677, investmentParser.ts line 572: return investments,
\* unless an exception left the loop
ExReturn ==
    /\ exEngine # "idle"
    /\ exLeft = 0
    /\ exInFlight = 0
    /\ exEngine' = "idle"
    /\ exOutcome' = IF exOutcome = "raised" THEN "raised" ELSE "returned"
    /\ UNCHANGED <<exLeft, exTotal, exInFlight, exCurrent, aiCalls, aiInvestments,
                   dpInvestments, dpCalls>>
    /\ UNCHANGED <<now, ckVars, tlVars, rtVars, gmVars, pbVars, lkVars, rdVars, ftVars>>

ExNext ==
    \/ \E engine \in {"ai", "deterministic"}, n \in 0..MaxMessages : ExStart(engine, n)
    \/ \E message \in AiMessages : AiCall(message)
    \/ \E retryThrew \in BOOLEAN, answer \in Answers : AiExtract(retryThrew, answer)
    \/ \E hasText \in BOOLEAN, text \in Texts, date \in Dates :
          DetExtract(hasText, text, date)
    \/ ExReturn

-----------------------------------------------------------------------------
(* The links of a record: cleanLinks of src/telegram.ts and extractLinks and
   cleanLinks of src/investmentParser.ts *)

\* A link is a sequence of fragments. "http" stands for the letters http
\* followed by something other than "://" or "s://".
LinkTexts ==
    { <<"https://", "acme", ".io">>,
      <<"acme", ".io">>,
      <<"http", "bin", ".org">>,
      <<"5", ".", "2", "M">>,
      <<"acme">> }

\* the lists of at most MaxLinks links
LinkLists == UNION { [1..n -> LinkTexts] : n \in 0..MaxLinks }

\* link.startsWith('http')
StartsWithHttp(link) == Len(link) > 0 /\ link[1] \in {"https://", "http://", "http"}

\* link.includes('.')
HasDot(link) == \E i \in 1..Len(link) : link[i] \in {".", ".io", ".org", ".com", ".net"}

\* /^[\d\.]+M?B?$/
IsAmountLike(link) ==
    /\ RunEnd(link, 1, "digitOrDot") > 1
    /\ SubSeq(link, RunEnd(link, 1, "digitOrDot"), Len(link))
          \in {<< >>, <<"M">>, <<"B">>, <<"M", "B">>}

\* 'https://' + link where link does not start with http
WithScheme(link) == IF StartsWithHttp(link) THEN link ELSE <<"https://">> \o link

\* telegram.ts lines 519-537: the filter of cleanLinks
IsAnswerLink(link) ==
    /\ Len(link) > 0
    /\ \/ StartsWithHttp(link)
       \/ \E i \in 1..Len(link) : link[i] \in {".com", ".io", ".org", ".net"}
    /\ ~IsAmountLike(link)
    /\ ~(/\ \A i \in 1..Len(link) : link[i] \notin {"https://", "http://"}
         /\ ~HasDot(link))

\* a sequence with f applied to every element
MapSeq(f(_), s) == [k \in 1..Len(s) |-> f(s[k])]

\* cleanLinks of telegram.ts, lines 516-546
cleanAnswerLinks(links) == MapSeq(WithScheme, SelectSeq(links, IsAnswerLink))

\* telegram.ts lines 505-508: the links of the record
AnswerLinks(links) == IF Len(links) > 0 THEN cleanAnswerLinks(links) ELSE << >>

\* investmentParser.ts line 24: the word holds a match of urlRegex
MatchesUrlRegex(word) ==
    /\ Len(word) > 1
    /\ \/ word[1] \in {"https://", "http://"}
       \/ \E i \in 2..Len(word) : word[i] \in {".com", ".io", ".org", ".net"}

\* investmentParser.ts lines 29-38: the filter of extractLinks;
\* /^\d+(\.\d+)?M?B?$/ admits no more than /^[\d\.]+M?B?$/ does
IsExtractedLink(url) == ~IsAmountLike(url) /\ HasDot(url)

\* extractLinks, investmentParser.ts lines 22-46, on the words of the text
extractLinks(words) ==
    MapSeq(WithScheme, SelectSeq(SelectSeq(words, MatchesUrlRegex), IsExtractedLink))

\* investmentParser.ts lines 418-430: the filter of cleanLinks
IsValidLink(link) ==
    /\ ~IsAmountLike(link)
    /\ \/ StartsWithHttp(link)
       \/ \E i \in 1..Len(link) : link[i] \in {".io", ".com", ".org"}

\* Array.from(new Set(list)): the first occurrences, in order
RECURSIVE Unique(_)
Unique(list) ==
    IF Len(list) = 0 THEN << >>
    ELSE LET front == Unique(SubSeq(list, 1, Len(list) - 1))
         IN  IF \E k \in 1..Len(front) : front[k] = list[Len(list)]
             THEN front ELSE Append(front, list[Len(list)])

\* cleanLinks of investmentParser.ts, lines 416-445
cleanLinks(links) == Unique(MapSeq(WithScheme, SelectSeq(links, IsValidLink)))

LkInit ==
    /\ lkEngine = "none"
    /\ lkInput = << >>
    /\ lkLinks = << >>

\* standardizeInvestmentData builds the links of a record from the links of
\* the answer, telegram.ts lines 505-508
StandardizeLinks(links) ==
    /\ lkEngine' = "ai"
    /\ lkInput' = links
    /\ lkLinks' = AnswerLinks(links)
    /\ UNCHANGED <<now, ckVars, tlVars, rtVars, gmVars, pbVars, exVars, rdVars, ftVars>>

\* parseInvestmentData and parseWeeklyRoundup build the links of a record
\* from the text, investmentParser.ts lines 240 and 537
ParseLinks(words) ==
    /\ lkEngine' = "deterministic"
    /\ lkInput' = words
    /\ lkLinks' = cleanLinks(extractLinks(words))
    /\ UNCHANGED <<now, ckVars, tlVars, rtVars, gmVars, pbVars, exVars, rdVars, ftVars>>

LkNext ==
    \/ \E links \in LinkLists : StandardizeLinks(links)
    \/ \E words \in LinkLists : ParseLinks(words)

-----------------------------------------------------------------------------
(* calculateRoundDistribution, telegram.ts lines 737-753 *)

\* the longest list of records given to calculateRoundDistribution
MaxRecords == 3

\* the round and the type of a record; round "" is a record without a round
RoundRecords ==
    { [round |-> "Series A", type |-> "funding"],
      [round |-> "", type |-> "funding"],
      [round |-> "", type |-> "acquisition"],
      [round |-> "", type |-> "roundup"],
      [round |-> "Acquisition", type |-> "acquisition"],
      [round |-> "Seed", type |-> "roundup"] }

RoundRecordLists == UNION {[1..n -> RoundRecords] : n \in 0..MaxRecords}

\* roundCounts = {}
NoCounts == [key \in {} |-> 0]

\* roundCounts[key] = 1, whatever it was
Overwritten(roundCounts, key) ==
    [k \in DOMAIN roundCounts \cup {key} |-> IF k = key THEN 1 ELSE roundCounts[k]]

\* roundCounts[key] = (roundCounts[key] || 0) + 1
Counted(roundCounts, key) ==
    [k \in DOMAIN roundCounts \cup {key} |->
        IF k # key THEN roundCounts[k]
        ELSE IF key \in DOMAIN roundCounts THEN roundCounts[key] + 1
        ELSE 1]

\* the key of the branch that the forEach callback takes, lines 741-749
RoundKey(investment) ==
    IF investment.round # "" THEN investment.round
    ELSE IF investment.type = "acquisition" THEN "Acquisition"
    ELSE IF investment.type = "roundup" THEN "Roundup"
    ELSE "Other"

RdInit ==
    /\ rdPc = "idle"
    /\ rdInput = << >>
    /\ rdInvestments = << >>
    /\ rdI = 0
    /\ rdCounts = NoCounts

\* calculateRoundDistribution is called, line 738
RoundsStart(investments) ==
    /\ rdPc = "idle"
    /\ rdPc' = "visiting"
    /\ rdInput' = investments
    /\ rdInvestments' = investments
    /\ rdI' = 0
    /\ rdCounts' = NoCounts
    /\ UNCHANGED <<now, ckVars, tlVars, rtVars, gmVars, pbVars, exVars, lkVars, ftVars>>

\* the forEach callback takes the next record, lines 740-750
RoundsVisit ==
    /\ rdPc = "visiting"
    /\ rdI < Len(rdInvestments)
    /\ rdI' = rdI + 1
    /\ rdCounts' = Counted(rdCounts, RoundKey(rdInvestments[rdI']))
    /\ UNCHANGED <<rdPc, rdInput, rdInvestments>>
    /\ UNCHANGED <<now, ckVars, tlVars, rtVars, gmVars, pbVars, exVars, lkVars, ftVars>>

\* return roundCounts, line 752
RoundsReturn ==
    /\ rdPc = "visiting"
    /\ rdI = Len(rdInvestments)
    /\ rdPc' = "idle"
    /\ UNCHANGED <<rdInput, rdInvestments, rdI, rdCounts>>
    /\ UNCHANGED <<now, ckVars, tlVars, rtVars, gmVars, pbVars, exVars, lkVars, ftVars>>

RdNext ==
    \/ \E investments \in RoundRecordLists : RoundsStart(investments)
    \/ RoundsVisit
    \/ RoundsReturn

-----------------------------------------------------------------------------
(* fetchTelegramMessages, telegram.ts lines 95-183, and the batches that
   processBulkMessages makes of its result, lines 29-45 *)

\* Math.min(50, limit - fetchedCount), line 109
FetchPageSize == 50

\* Math.min(messages.length, 100), line 166
ProcessedCap == 100

\* the largest number of messages of a source
MaxSource == 120

\* a source holds its messages newest first; position p is TRUE when the
\* message has text (message.message is not empty). The id of a message
\* falls as its position rises.
SourceOf(n, media) == [p \in 1..n |-> p \notin media]

Sources ==
    { SourceOf(n, media) :
        n \in {0, 1, BATCH_SIZE + 1, MaxSource \div 2, MaxSource},
        media \in {{}, {2}, 1..FetchPageSize} }

\* the values of totalLimit
Limits == {1, BATCH_SIZE, ProcessedCap, MaxSource, 1000}

\* the number of messages of the source that have text
TextCount(source) == Cardinality({p \in DOMAIN source : source[p]})

\* client.getMessages(channel, {limit: batchSize, offsetId: offset}): the
\* positions of the next batchSize messages older than the one at offset
GetMessages(source, offset, batchSize) ==
    [k \in 1..(Min(Len(source), offset + batchSize) - offset) |-> offset + k]

\* messageBatch: the messages of result that have text, lines 122-141
TextMessages(source, result) == SelectSeq(result, LAMBDA p : source[p])

\* offset after the for loop of lines 122-141: the smallest id, which is the
\* largest position, of the messages of the batch, unchanged for no message
OffsetAfter(offset, messageBatch) ==
    IF Len(messageBatch) = 0 THEN offset ELSE messageBatch[Len(messageBatch)]

\* messages.slice(0, processedCount), lines 166 and 178
Returned(messages) == SubSeq(messages, 1, Min(Len(messages), ProcessedCap))

\* batches that leave out the last message of every slice
SlicesShort(messages) ==
    [b \in 1..Ceil(Len(messages), BATCH_SIZE) |->
        SubSeq(messages, (b - 1) * BATCH_SIZE + 1,
               Min(Len(messages), b * BATCH_SIZE - 1))]

\* batches of processBulkMessages, lines 42-45:
\* batches[b - 1] = messages.slice((b - 1) * BATCH_SIZE, b * BATCH_SIZE)
Slices(messages) ==
    [b \in 1..Ceil(Len(messages), BATCH_SIZE) |->
        SubSeq(messages, (b - 1) * BATCH_SIZE + 1,
               Min(Len(messages), b * BATCH_SIZE))]

FtInit ==
    /\ ftPc = "idle"
    /\ ftLimit = 0
    /\ ftSource = << >>
    /\ ftOffset = 0
    /\ ftFetchedCount = 0
    /\ ftMessages = << >>
    /\ ftFailed = FALSE
    /\ ftReturned = << >>
    /\ ftBatches = << >>

\* fetchTelegramMessages(channel, limit) up to the while loop, lines 95-105;
\* when createTelegramClient throws, the outer catch returns no message,
\* lines 179-181
FetchStart(source, limit, connected) ==
    /\ ftPc \in {"idle", "batched"}
    /\ ftPc' = IF connected THEN "fetching" ELSE "returned"
    /\ ftLimit' = limit
    /\ ftSource' = source
    /\ ftOffset' = 0
    /\ ftFetchedCount' = 0
    /\ ftMessages' = << >>
    /\ ftFailed' = ~connected
    /\ ftReturned' = << >>
    /\ ftBatches' = << >>
    /\ UNCHANGED <<now, ckVars, tlVars, rtVars, gmVars, pbVars, exVars, lkVars, rdVars>>

\* one turn of the while loop of lines 107-162 in which getMessages returns
FetchPage ==
    /\ ftPc = "fetching"
    /\ ftMessages' = ftMessages \o TextMessages(ftSource,
          GetMessages(ftSource, ftOffset, Min(FetchPageSize, ftLimit - ftFetchedCount)))
    /\ ftFetchedCount' = ftFetchedCount + (Len(ftMessages') - Len(ftMessages))
    /\ ftOffset' = OffsetAfter(ftOffset, SubSeq(ftMessages', Len(ftMessages) + 1,
                                                Len(ftMessages')))
    /\ ftPc' = IF Len(ftMessages') = Len(ftMessages) \/ ftFetchedCount' >= ftLimit
               THEN "processing" ELSE "fetching"
    /\ UNCHANGED <<ftLimit, ftSource, ftFailed, ftReturned, ftBatches>>
    /\ UNCHANGED <<now, ckVars, tlVars, rtVars, gmVars, pbVars, exVars, lkVars, rdVars>>

\* getMessages throws, a timeout or another error: the catch of lines
\* 152-161 leaves the loop
FetchPageFails ==
    /\ ftPc = "fetching"
    /\ ftPc' = "processing"
    /\ ftFailed' = TRUE
    /\ UNCHANGED <<ftLimit, ftSource, ftOffset, ftFetchedCount, ftMessages, ftReturned,
                   ftBatches>>
    /\ UNCHANGED <<now, ckVars, tlVars, rtVars, gmVars, pbVars, exVars, lkVars, rdVars>>

\* the loop over analyzeText, whose errors are caught, and the return of
\* line 178
FetchReturn ==
    /\ ftPc = "processing"
    /\ ftPc' = "returned"
    /\ ftReturned' = Returned(ftMessages)
    /\ UNCHANGED <<ftLimit, ftSource, ftOffset, ftFetchedCount, ftMessages, ftFailed,
                   ftBatches>>
    /\ UNCHANGED <<now, ckVars, tlVars, rtVars, gmVars, pbVars, exVars, lkVars, rdVars>>

\* processBulkMessages splits the messages into batches, lines 41-45
SplitIntoBatches ==
    /\ ftPc = "returned"
    /\ ftPc' = "batched"
    /\ ftBatches' = Slices(ftReturned)
    /\ UNCHANGED <<ftLimit, ftSource, ftOffset, ftFetchedCount, ftMessages, ftFailed,
                   ftReturned>>
    /\ UNCHANGED <<now, ckVars, tlVars, rtVars, gmVars, pbVars, exVars, lkVars, rdVars>>

FtNext ==
    \/ \E source \in Sources, limit \in Limits, connected \in BOOLEAN :
          FetchStart(source, limit, connected)
    \/ FetchPage
    \/ FetchPageFails
    \/ FetchReturn
    \/ SplitIntoBatches

-----------------------------------------------------------------------------

Init ==
    /\ now = 0
    /\ PbInit
    /\ CkInit
    /\ TlInit
    /\ GmInit
    /\ ExInit
    /\ LkInit
    /\ RdInit
    /\ FtInit

CkNext ==
    \/ \E c \in Channels, b \in BatchSizes : Constructor(c, b)
    \/ \E k \in 0..MaxBatchIndex, n \in -1..MaxCount : UpdateCheckpoint(k, n)
    \/ \E k \in 0..MaxBatchIndex, e \in ErrorMessages : RecordError(k, e)
    \/ Reset
    \/ Crash
    \/ Tick /\ UNCHANGED <<ckVars, tlVars, rtVars, gmVars, pbVars, exVars, lkVars, rdVars, ftVars>>

SpecCheckpoint == Init /\ [][CkNext]_vars

SpecLimiter == Init /\ [][TlNext]_vars

SpecGemini == Init /\ [][GmNext]_vars

SpecBulk == Init /\ [][PbNext]_vars

\* an external call of the run (the fetch, an extraction, a file write, a
\* sleep, the merge) returns or raises
BulkCallEnds ==
    \/ BulkFetchFails
    \/ \E n \in FetchedLengths : BulkFetched(n)
    \/ \E investments \in BatchOutputs : BulkAttemptSucceeds(investments)
    \/ \E cause \in FailureCauses : BulkAttemptFails(cause)
    \/ BulkRetrySleepDone
    \/ BulkBatchSleepDone
    \/ \E written \in BOOLEAN : BulkMerged(written)

\* processBulkMessages when every external call returns or raises
SpecBulkLive == SpecBulk /\ WF_vars(BulkCallEnds)

SpecEngines == Init /\ [][ExNext]_vars

SpecLinks == Init /\ [][LkNext]_vars

SpecRounds == Init /\ [][RdNext]_vars

SpecFetch == Init /\ [][FtNext]_vars

Next == CkNext \/ TlNext \/ GmNext \/ PbNext \/ ExNext \/ LkNext \/ RdNext \/ FtNext

Spec == Init /\ [][Next]_vars

-----------------------------------------------------------------------------
(* Properties of the CheckpointManager *)

\* C1: a manager constructed for the same source key right after a stop that
\* followed updateCheckpoint(k, n) returns getNextBatchIndex() = k + 1 and
\* the totalProcessed that call left.
C1_ResumeAfterUpdate ==
    (/\ ckLive
     /\ ckLastCall.op = "constructor"
     /\ ckLastCall.prevOp = "updateCheckpoint"
     /\ ckLastCall.prevPath = ckPath)
    => /\ getNextBatchIndex(ckData) = ckLastCall.prevBatchIndex + 1
       /\ getTotalProcessed(ckData) = ckLastCall.prevTotal

C1_Witness ==
    /\ ckLive
    /\ ckLastCall.op = "constructor"
    /\ ckLastCall.prevOp = "updateCheckpoint"
    /\ ckLastCall.prevPath = ckPath
    /\ ckLastCall.prevBatchIndex = 1
    /\ ckLastCall.prevTotal = 2
    /\ Len(ckData.errors) = 1

\* C4: when the constructor, updateCheckpoint, recordError or reset has
\* returned, the file of the source key holds the in-memory state; after a
\* stop it still holds the state of the last call that returned.
C4_DiskEqualsMemory ==
    ckLastCall.op # "none"
    => /\ FileExists(ckDisk, ckLastCall.path)
       /\ ckDisk[ckLastCall.path] = Stringify(ckLastData)
       /\ ParseCheckpoint(ckDisk[ckLastCall.path]) = ckLastData
       /\ ckLive => (ckData = ckLastData /\ ckPath = ckLastCall.path)

C4_Witness ==
    /\ ~ckLive
    /\ ckLastCall.op = "recordError"
    /\ ckLastData.totalProcessed = 2
    /\ ckLastData.lastBatchIndex = 1
    /\ ckDisk[ckLastCall.path] = Stringify(ckLastData)

\* C5 as claimed: over updateCheckpoint with any batch index and count,
\* recordError, reset and reloads, neither totalProcessed nor lastBatchIndex
\* ever decreases.
C5_MonotonicAlways ==
    [][ ckLastCall.op # "none"
        => /\ ckLastData'.totalProcessed >= ckLastData.totalProcessed
           /\ ckLastData'.lastBatchIndex >= ckLastData.lastBatchIndex ]_vars

\* C5 as amended: over recordError, reloads, and updateCheckpoint calls
\* whose batch index is not below lastBatchIndex and whose count is not
\* negative, neither totalProcessed nor lastBatchIndex decreases.
C5_MonotonicWithoutReset ==
    [][ (/\ ckLastCall.op # "none"
         /\ ckLastCall'.op # "reset"
         /\ ckLastCall'.op = "updateCheckpoint"
            => /\ ckLastCall'.batchIndex >= ckLastData.lastBatchIndex
               /\ ckLastCall'.count >= 0)
        => /\ ckLastData'.totalProcessed >= ckLastData.totalProcessed
           /\ ckLastData'.lastBatchIndex >= ckLastData.lastBatchIndex ]_vars

C5_Witness ==
    /\ ckLastCall.op = "updateCheckpoint"
    /\ ckLastData.totalProcessed = 2
    /\ ckLastData.lastBatchIndex = 1

\* C6: the constructor on a key without a file yields lastBatchIndex -1,
\* totalProcessed 0 and no errors and writes that state; on a key with a
\* file it yields the state the file holds and leaves the files as they are.
C6_ConstructorLoadsOrInitialises ==
    [][ (~ckLive /\ ckLive')
        => IF FileExists(ckDisk, ckPath')
           THEN /\ Stringify(ckData') = ckDisk[ckPath']
                /\ ckDisk' = ckDisk
           ELSE /\ ckData'.lastBatchIndex = -1
                /\ ckData'.totalProcessed = 0
                /\ ckData'.errors = << >>
                /\ getNextBatchIndex(ckData') = 0
                /\ FileExists(ckDisk', ckPath')
                /\ ckDisk'[ckPath'] = Stringify(ckData') ]_vars

C6_Witness ==
    /\ ckLive
    /\ ckLastCall.op = "constructor"
    /\ ckLastCall.hadFile
    /\ ckData.lastBatchIndex = 1
    /\ Len(ckData.errors) = 1

-----------------------------------------------------------------------------
(* Properties of the TokenRateLimiter *)

\* the tokens consumed at or after time t
RECURSIVE ConsumedSince(_, _)
ConsumedSince(events, t) ==
    IF Len(events) = 0 THEN 0
    ELSE (IF Head(events)[1] >= t THEN Head(events)[2] ELSE 0)
         + ConsumedSince(Tail(events), t)

\* the size of the latest request served
LatestRequest == tlConsumed[Len(tlConsumed)][2]

\* C7: in every state of the limiter, whatever positive token counts
\* consumeTokens was called with, 0 <= tokenBudget <= tokensPerMinute.
C7_BudgetWithinCapacity ==
    /\ 0 <= tlTokenBudget
    /\ tlTokenBudget <= tlTokensPerMinute

\* C8 as claimed: the tokens consumed within the trailing 60 seconds never
\* exceed the capacity by more than the size of one request.
C8_WindowWithinCapacity ==
    Len(tlConsumed) > 0
    => ConsumedSince(tlConsumed, now - MinuteMs + 1) <= tlTokensPerMinute + LatestRequest

\* C8 as amended: the tokens consumed within the trailing 60 seconds never
\* exceed twice the capacity (the full bucket plus one minute of refill) by
\* more than the size of one request.
C8_WindowWithinTwiceCapacity ==
    Len(tlConsumed) > 0
    => ConsumedSince(tlConsumed, now - MinuteMs) <= 2 * tlTokensPerMinute + LatestRequest

C8_Witness ==
    /\ Len(tlConsumed) >= 3
    /\ ConsumedSince(tlConsumed, now - MinuteMs + 1) > tlTokensPerMinute + LatestRequest

-----------------------------------------------------------------------------
(* Properties of retry and of the AI extraction engine *)

\* C9: every callGeminiAPI the extraction engine issues is preceded by a
\* consumeTokens on the shared limiter that returned since the previous call.
C9_CallsAfterConsumeTokens ==
    (gmPc = "retrying" /\ rtCalls > 0) => gmCallMediated

\* the error's message contains none of "503", "overloaded", "UNAVAILABLE"
FatalError(e) ==
    /\ e.thrown
    /\ \A i \in 1..Len(e.message) : e.message[i] \notin {"503", "overloaded", "UNAVAILABLE"}

\* C10: when an attempt fails with an error whose message contains none of
\* "503", "overloaded", "UNAVAILABLE", retry re-raises that error at once:
\* it neither sleeps nor invokes fn again, however many retryable failures
\* came before.
C10_FatalErrorRethrownAtOnce ==
    FatalError(rtError)
    => /\ rtPc \in {"thrown", "idle"}
       /\ rtOutcome = rtError
       /\ rtCalls = rtRetries
       /\ Len(rtSleeps) = rtRetries - 1

C10_Witness ==
    /\ rtPc = "thrown"
    /\ FatalError(rtError)
    /\ rtOutcome = rtError
    /\ rtRetries = 3
    /\ rtMaxRetries = 5
    /\ Len(rtSleeps) = 2

\* C11: retry invokes fn at most maxRetries + 1 times; when every attempt
\* failed with a retryable error, the error of attempt maxRetries + 1 is
\* thrown after exactly maxRetries sleeps; when an attempt succeeds, its value
\* is returned after one invocation per earlier failure and that one.
C11_AtMostMaxRetriesPlusOneCalls ==
    /\ rtCalls <= rtMaxRetries + 1
    /\ (rtPc = "thrown" /\ IsRetryable(rtError))
       => /\ rtCalls = rtMaxRetries + 1
          /\ rtRetries = rtMaxRetries + 1
          /\ Len(rtSleeps) = rtMaxRetries
          /\ rtOutcome = rtError
    /\ rtPc = "returned"
       => /\ rtOutcome \in Responses
          /\ rtCalls = rtRetries + 1
          /\ Len(rtSleeps) = rtRetries

C11_Witness ==
    /\ rtPc = "thrown"
    /\ IsRetryable(rtError)
    /\ rtMaxRetries = 2
    /\ rtCalls = 3
    /\ Len(rtSleeps) = 2

\* the delay that precedes sleep k of the retry call
PreviousDelay(k) == IF k = 1 THEN rtInitialDelay ELSE rtSleeps[k - 1]

\* C12: every backoff sleep is min(previousDelay * 1.5 * jitter, maxDelay)
\* for a jitter in [0.85, 1.15], previousDelay starting at initialDelay; no
\* sleep exceeds maxDelay and the sleeps of one retry call never decrease.
C12_DelaysCappedAndNonDecreasing ==
    \A k \in 1..Len(rtSleeps) :
        /\ rtSleeps[k] <= rtMaxDelay
        /\ \/ rtSleeps[k] = rtMaxDelay
           \/ /\ 1000 * (rtSleeps[k] + 1) > PreviousDelay(k) * 1275
              /\ 1000 * rtSleeps[k] <= PreviousDelay(k) * 1725
        /\ (k > 1) => (rtSleeps[k] >= rtSleeps[k - 1])

C12_Witness ==
    /\ Len(rtSleeps) = 2
    /\ rtInitialDelay = 40000
    /\ rtSleeps[1] = 51000
    /\ rtSleeps[2] = 60000
    /\ rtMaxDelay = 60000

\* the extraction in progress or done called retry, and retry returned a
\* response
RetryReturnedResponse ==
    /\ PassesPrefilter(gmMessage)
    /\ rtCalls = rtRetries + 1
    /\ rtPc \in {"returned", "idle"}

\* C13: extractInvestmentWithGemini settles with a record or with null and
\* never with an error: after a fatal error or exhausted retries, a response
\* without a brace pair, a brace substring that is not JSON, and a parsed
\* object on whose fields standardizeInvestmentData throws, it returns null.
C13_ExtractionNeverRaises ==
    gmPc = "done"
    => /\ gmResult \in {"null", "record"}
       /\ (gmResult = "record") = (gmRecord # NoRecord)
       /\ (PassesPrefilter(gmMessage) /\ rtCalls = rtRetries) => gmResult = "null"
       /\ (RetryReturnedResponse /\ TryResponse(rtOutcome, gmMessage) # "record")
          => gmResult = "null"

C13_Witness ==
    /\ gmPc = "done"
    /\ gmResult = "null"
    /\ RetryReturnedResponse
    /\ rtOutcome = <<"{", "cAcqNull", "}">>
    /\ TryResponse(rtOutcome, gmMessage) = "TypeError"

\* responses without a brace pair, or whose brace substring is not JSON
MalformedResponses ==
    { <<"S">>,
      <<"}", "{">>,
      <<"{", "{", "c", "}">>,
      <<"{", "c", "}", "S", "{", "cWords", "}">> }

\* C14: when retry returns a response without a brace pair or whose brace
\* substring is not JSON, that was the one generation call that succeeded,
\* and the extraction ends with null without another call.
C14_MalformedResponseNotRetried ==
    /\ []((gmPc = "retrying" /\ rtPc = "returned") => rtCalls - rtRetries = 1)
    /\ [](gmPc = "done" => rtPc = "idle")
    /\ [][ (gmPc = "retrying" /\ rtPc = "returned" /\ rtOutcome \in MalformedResponses)
           => /\ gmPc' = "done"
              /\ gmResult' = "null"
              /\ rtCalls' = rtCalls
              /\ rtPc' = "idle" ]_vars

C14_Witness ==
    /\ gmPc = "done"
    /\ gmResult = "null"
    /\ RetryReturnedResponse
    /\ rtRetries = 1
    /\ rtOutcome = <<"{", "{", "c", "}">>

\* the positions of a character in a response, from 1
Positions(r, ch) == {i \in 1..Len(r) : r[i] = ch}

\* the least and the greatest element of a non-empty set of positions
Least(S) == CHOOSE i \in S : \A j \in S : i <= j

Greatest(S) == CHOOSE i \in S : \A j \in S : j <= i

\* the response has a '{' and a '}' and its last '}' is not before its first '{'
HasBracePair(r) ==
    /\ Positions(r, "{") # {}
    /\ Positions(r, "}") # {}
    /\ Least(Positions(r, "{")) < Greatest(Positions(r, "}"))

\* the response from its first '{' to its last '}', both included
FirstToLastBrace(r) == SubSeq(r, Least(Positions(r, "{")), Greatest(Positions(r, "}")))

\* C15: the engine parses exactly the response from its first '{' to its last
\* '}' inclusive, whatever surrounds it; without such a pair the result is
\* null.
C15_ParsesFirstToLastBrace ==
    (gmPc = "done" /\ RetryReturnedResponse)
    => IF ~HasBracePair(rtOutcome) THEN gmResult = "null"
       ELSE LET json == FirstToLastBrace(rtOutcome)
                isRoundup == IsRoundupText(gmMessage)
            IN  IF ParsesAsJson(json) /\ ~StandardizeThrows(ParsedData(json), gmMessage, isRoundup)
                THEN /\ gmResult = "record"
                     /\ gmRecord = standardizeInvestmentData(ParsedData(json), gmMessage, isRoundup)
                ELSE gmResult = "null"

C15_Witness ==
    /\ gmPc = "done"
    /\ RetryReturnedResponse
    /\ rtOutcome = <<"S", "{", "cRange", "k:", "{", "c", "}", "}">>
    /\ gmResult = "record"
    /\ gmRecord.amount = JsString(<<"5", "M", "-", "$", "9", "M">>)

-----------------------------------------------------------------------------
(* Properties of processBulkMessages *)

\* C2: a run restarted after an interruption never processes again a batch
\* that had completed before the interruption.
C2_NoBatchProcessedAgain ==
    pbPc = "attempt" => pbI \notin pbDoneBefore

\* the checkpoint file of the run's channel records the outcome of batch b
OutcomeRecorded(b) ==
    /\ FileExists(ckDisk, CheckpointPath(pbChannel))
    /\ LET d == ParseCheckpoint(ckDisk[CheckpointPath(pbChannel)])
       IN  IF pbOutcome[b + 1] = "ok"
           THEN d.lastBatchIndex = b
           ELSE \E k \in 1..Len(d.errors) : d.errors[k].batch = b

\* C3: when batch i+1 begins, the checkpoint on disk records the outcome of
\* batch i: lastBatchIndex = i after a success, an error entry for i after
\* a batch that failed on all its attempts.
C3_OutcomeRecordedBeforeNextBatch ==
    (pbPc = "attempt" /\ pbI > 0) => OutcomeRecorded(pbI - 1)

\* an attempt on a batch starts in this step
AttemptStarts == pbPc # "attempt" /\ pbPc' = "attempt"

\* batch pbI ends in this step, with a success or after its last attempt
BatchEnds == Len(pbOutcome') = Len(pbOutcome) + 1

\* C23: in processBulkMessages batches are started in index order, each
\* batch is attempted at most MAX_RETRIES_PER_BATCH (3) times, and a batch
\* that fails on all its attempts does not block the run: after batch i,
\* succeeded or failed, the run goes on to batch i+1, and to the merge step
\* after the last batch.
C23_BatchesInOrderNoneBlocks ==
    /\ [](pbAttempts <= 3)
    /\ [][AttemptStarts =>
              \/ pbPc = "fetching" /\ pbI' = 0
              \/ pbPc = "retrySleep" /\ pbI' = pbI /\ Len(pbOutcome) = pbI
              \/ pbPc = "batchSleep" /\ pbI' = pbI + 1 /\ Len(pbOutcome) = pbI + 1]_vars
    /\ [][BatchEnds =>
              pbPc' = IF pbI + 1 < BatchCount(pbMessages) THEN "batchSleep"
                      ELSE "merging"]_vars
    /\ [][(pbPc # "merging" /\ pbPc' = "merging") =>
              Len(pbOutcome') = BatchCount(pbMessages')]_vars

\* the merge step is reached after a first batch that failed on its three
\* attempts and a second batch that succeeded
C23_Witness ==
    /\ pbPc = "merging"
    /\ pbOutcome = <<"failed", "ok">>
    /\ pbAttempts = 1

\* C24: after every batch, whether it succeeded or exhausted its retries,
\* the batch's output is persisted as its own file batch_<i>.json before the
\* inter-batch wait and before the next batch starts; after a run there is
\* one per-batch file for every batch index.
C24_EveryEndedBatchHasItsFile ==
    \A b \in 1..Len(pbOutcome) : b \in FileNumbers(pbFiles)

\* C25: after all batches complete, the aggregated result persisted by the
\* orchestrator contains every record of every per-batch file: investments
\* is the concatenation of the per-batch record lists and totalInvestments
\* the sum of their lengths, no record being re-extracted, dropped or
\* altered by the merge.
C25_AggregateHoldsEveryRecord ==
    (pbPc = "done" /\ Len(pbAggregate) = 1)
        => /\ pbAggregate[1].investments = ConcatFiles(pbFiles, BatchCount(pbMessages))
           /\ pbAggregate[1].totalInvestments
                 = Len(ConcatFiles(pbFiles, BatchCount(pbMessages)))

\* C27: a persistence error (a failed durable write of a batch's output) is
\* propagated immediately and fails the run: after it the orchestrator does
\* not retry the batch, does not start any later batch and does not run the
\* merge step.
C27_WriteFailureEndsRun ==
    pbWriteFailed => pbPc \in {"done", "idle"}

-----------------------------------------------------------------------------
(* Properties of the two extraction engines *)

\* company is a string of length >= 1 or a list with at least one element
NonEmptyCompany(record) ==
    \/ record.company.t = "string" /\ Len(record.company.s) >= 1
    \/ record.company.t = "array" /\ Len(record.company.a) >= 1

\* C16: no record emitted by extractInvestmentData or by
\* extractInvestmentsWithAI has an empty company: company is a string of
\* length >= 1 or a list with at least one element.
C16_NoEmptyCompany ==
    /\ \A k \in 1..Len(aiInvestments) : NonEmptyCompany(aiInvestments[k])
    /\ \A k \in 1..Len(dpInvestments) : NonEmptyCompany(dpInvestments[k])

\* extractInvestmentData returned after two messages: a roundup in which no
\* line gave a company, which it dropped, and a message it emitted
C16_Witness ==
    /\ exEngine = "idle"
    /\ Len(dpCalls) = 2
    /\ dpCalls[1].result.type = "roundup"
    /\ dpCalls[1].result.company = JsArray(<< >>)
    /\ dpInvestments = <<dpCalls[2].result>>
    /\ dpCalls[2].result.company = JsString(<<"Acme">>)

\* a roundup carries lists of equal length (or no amount), another record
\* scalars
ListsOrScalars(record) ==
    IF record.type = "roundup"
    THEN /\ record.company.t = "array"
         /\ \/ record.amount.t = "undefined"
            \/ /\ record.amount.t = "array"
               /\ Len(record.amount.a) = Len(record.company.a)
    ELSE /\ record.company.t \in {"string", "number"}
         /\ record.amount.t \in {"string", "number", "undefined"}

\* C17: every record emitted by either engine with type = roundup carries
\* company as a list and amount either absent or a list of the same length;
\* every record with another type carries a scalar company and a scalar
\* amount.
C17_RoundupListsOtherScalars ==
    /\ \A k \in 1..Len(aiInvestments) : ListsOrScalars(aiInvestments[k])
    /\ \A k \in 1..Len(dpInvestments) : ListsOrScalars(dpInvestments[k])

\* ^[0-9]+(\.[0-9]+)?[MB]$ on a sequence of characters
MatchesAmountPattern(s) ==
    LET i == RunEnd(s, 1, "digit")
        j == IF i <= Len(s) /\ s[i] = "." THEN RunEnd(s, i + 1, "digit") ELSE i
    IN  /\ i > 1
        /\ j = i \/ j > i + 1
        /\ j = Len(s)
        /\ s[j] \in {"M", "B"}

\* the amount of a record is a normalised monetary string, or "Undisclosed"
NormalisedAmount(record) ==
    /\ record.amount.t = "string"
    /\ \/ MatchesAmountPattern(record.amount.s)
       \/ record.amount.s = <<"Undisclosed">>

\* C18: every record emitted by either engine with a type other than roundup
\* has an amount that matches ^[0-9]+(\.[0-9]+)?[MB]$ or equals
\* "Undisclosed".
C18_AmountIsNormalised ==
    /\ \A k \in 1..Len(aiInvestments) :
          aiInvestments[k].type # "roundup" => NormalisedAmount(aiInvestments[k])
    /\ \A k \in 1..Len(dpInvestments) :
          dpInvestments[k].type # "roundup" => NormalisedAmount(dpInvestments[k])

\* the characters of s hold no '$'
NoDollarIn(s) == \A p \in 1..Len(s) : s[p] # "$"

\* a value (a string, a list of values, or another value) holds no '$'
NoDollar(v) ==
    /\ NoDollarIn(v.s)
    /\ \A k \in 1..Len(v.a) : NoDollarIn(v.a[k].s)

\* C19: in every record emitted by either engine, amount (scalar or each
\* list element), valuation and every nested acquisition amount contain no
\* '$'.
C19_NoCurrencySymbol ==
    /\ \A k \in 1..Len(aiInvestments) :
          /\ NoDollar(aiInvestments[k].amount)
          /\ NoDollar(aiInvestments[k].valuation)
          /\ \A q \in 1..Len(aiInvestments[k].acquisitionsInRoundup) :
                NoDollar(aiInvestments[k].acquisitionsInRoundup[q].amount)
    /\ \A k \in 1..Len(dpInvestments) :
          /\ NoDollar(dpInvestments[k].amount)
          /\ NoDollar(dpInvestments[k].valuation)
          /\ \A q \in 1..Len(dpInvestments[k].acquisitions) :
                NoDollarIn(dpInvestments[k].acquisitions[q].amount)

C21_HeadlineItemsAreListed ==
    \A k \in 1..Len(dpCalls) :
        dpCalls[k].text = HeadlineWithItems
            => /\ dpCalls[k].result.type = "roundup"
               /\ dpCalls[k].result.company = StringArray(<<<<"Acme">>, <<"Beta">>>>)
               /\ dpCalls[k].result.amount
                     = StringArray(<<<<"1", "0", "M">>, <<"2", ".", "5", "M">>>>)

\* C22: the two extraction engines make the same front-end decisions for
\* every message text: the AI engine's keyword pre-filter rejects a message
\* exactly when the deterministic engine's does, and the AI engine classifies
\* a message as a roundup exactly when the deterministic engine does.
C22_SameFrontEndDecisions ==
    \A k \in 1..Len(dpCalls) :
        /\ dpCalls[k].looksLikeFunding = PassesPrefilter(Flat(dpCalls[k].text))
        /\ dpCalls[k].isRoundup = IsRoundupText(Flat(dpCalls[k].text))

\* C26: a transient service error that persists until retry gives up is
\* surfaced as a failure of the batch that contains the message: the call of
\* extractInvestmentsWithAI made by the batch attempt raises, so that the
\* attempt counts as failed in processBulkMessages.
C26_GiveUpFailsTheBatch ==
    (/\ exEngine = "idle"
     /\ exOutcome # "none"
     /\ \E k \in 1..Len(aiCalls) : aiCalls[k].gaveUp)
        => exOutcome = "raised"

\* C28: at most one extraction call is in flight at any time: the call for
\* message j+1 starts only after the processing of message j has returned.
C28_OneCallInFlight ==
    /\ exInFlight <= 1
    /\ exInFlight = 1 => Len(aiCalls) = exTotal - exLeft - 1

\* the call for the second message is in flight, after the first returned
C28_Witness ==
    /\ exEngine = "ai"
    /\ exInFlight = 1
    /\ Len(aiCalls) = 1

\* C29: a per-message failure never aborts a batch: in
\* extractInvestmentData and in extractInvestmentsWithAI, when processing a
\* message raises or yields no record, every later message is still
\* processed, the records already extracted are kept, and the function
\* returns the records of the messages that succeeded, in message order,
\* without raising.
C29_MessageFailureNeverAborts ==
    /\ aiInvestments = Pushed(aiCalls, FALSE)
    /\ dpInvestments = Pushed(dpCalls, TRUE)
    /\ exOutcome # "raised"
    /\ (exEngine = "idle" /\ exOutcome = "returned")
          => Len(aiCalls) + Len(dpCalls) = exTotal

\* extractInvestmentsWithAI returned the record of its second message after
\* its first message had raised
C29_Witness ==
    /\ exEngine = "idle"
    /\ exOutcome = "returned"
    /\ Len(aiCalls) = 2
    /\ aiCalls[1].raised
    /\ aiInvestments = <<aiCalls[2].result>>

-----------------------------------------------------------------------------
(* Properties of the links of a record *)

\* C30: in every record emitted by either engine, links contains no
\* duplicate entry and every entry is an absolute URL: it begins with the
\* scheme http:// or https://.
C30_LinksUniqueAndAbsolute ==
    /\ \A i, j \in 1..Len(lkLinks) : lkLinks[i] = lkLinks[j] => i = j
    /\ \A i \in 1..Len(lkLinks) : lkLinks[i][1] \in {"http://", "https://"}

-----------------------------------------------------------------------------
(* Properties of the boundary to the worker process *)

\* C31: callGeminiAPI fails when the worker process exits with a non-zero
\* code or writes {success: false, error}, and resolves with the response
\* text only for exit code 0 and {success: true}; a non-zero exit is fatal
\* for that call: retry does not invoke the operation again for it.
C31_WorkerExitDecidesTheCall ==
    gmWorker # << >> =>
        /\ gmWorker[1].code # 0 =>
              /\ rtError = Err(<<"Gemini wrapper exited with code ",
                                 CodeText(gmWorker[1].code)>>)
              /\ rtPc \in {"thrown", "idle"}
              /\ rtOutcome = rtError
              /\ rtCalls = rtRetries
        /\ (gmWorker[1].code = 0 /\ ~gmWorker[1].output.readable) => rtError.thrown
        /\ (/\ gmWorker[1].code = 0
            /\ gmWorker[1].output.readable
            /\ ~gmWorker[1].output.success) =>
              /\ rtError.thrown
              /\ rtError.message \in {gmWorker[1].output.error,
                                      <<"Unknown error in Gemini API call">>}
        /\ (/\ gmWorker[1].code = 0
            /\ gmWorker[1].output.readable
            /\ gmWorker[1].output.success) =>
              /\ rtPc \in {"returned", "idle"}
              /\ rtOutcome = gmWorker[1].output.response
        /\ rtPc = "returned" =>
              /\ gmWorker[1].code = 0
              /\ gmWorker[1].output.success

\* the worker process wrote {success: true} and exited with code 1 on the
\* first call, and retry threw without a second call
C31_Witness ==
    /\ gmWorker # << >>
    /\ gmWorker[1].code = 1
    /\ gmWorker[1].output.success
    /\ rtPc = "thrown"
    /\ rtCalls = 1
    /\ rtMaxRetries > 0

-----------------------------------------------------------------------------
(* Properties of calculateRoundDistribution *)

RECURSIVE SumOfCounts(_, _)
SumOfCounts(counts, keys) ==
    IF keys = {} THEN 0
    ELSE LET k == CHOOSE x \in keys : TRUE
         IN counts[k] + SumOfCounts(counts, keys \ {k})

\* C32: the round-type histogram counts every record exactly once: a record
\* with a round is counted under that round, a record without a round under
\* Acquisition, Roundup or Other according to its type, so the counts sum
\* to the number of records; the input records are not mutated.
C32_EveryRecordCountedOnce ==
    /\ rdInvestments = rdInput
    /\ \A k \in DOMAIN rdCounts :
          /\ rdCounts[k] > 0
          /\ rdCounts[k] = Cardinality({i \in 1..rdI :
                \/ rdInput[i].round # "" /\ k = rdInput[i].round
                \/ /\ rdInput[i].round = ""
                   /\ rdInput[i].type = "acquisition"
                   /\ k = "Acquisition"
                \/ /\ rdInput[i].round = ""
                   /\ rdInput[i].type = "roundup"
                   /\ k = "Roundup"
                \/ /\ rdInput[i].round = ""
                   /\ rdInput[i].type \notin {"acquisition", "roundup"}
                   /\ k = "Other"})
    /\ \A i \in 1..rdI :
          rdInput[i].round # "" => rdInput[i].round \in DOMAIN rdCounts
    /\ SumOfCounts(rdCounts, DOMAIN rdCounts) = rdI

\* the histogram of three records was returned: two under Acquisition, one of
\* them by its round and one by its type, and one under Other
C32_Witness ==
    /\ rdPc = "idle"
    /\ rdI = 3
    /\ DOMAIN rdCounts = {"Acquisition", "Other"}
    /\ rdCounts["Acquisition"] = 2
    /\ \E i \in 1..3 : rdInput[i].round = "Acquisition"
    /\ \E i \in 1..3 : rdInput[i].round = "" /\ rdInput[i].type = "acquisition"

-----------------------------------------------------------------------------
(* Properties of the inter-batch delay *)

\* how a step of the run changes currentDelay
DelayStep ==
    /\ (pbPc = "attempt" /\ pbRetryCount' = pbRetryCount + 1)
          => (2 * pbCurrentDelay' = 3 * pbCurrentDelay)
    /\ (pbPc = "attempt" /\ Len(pbOutcome') > Len(pbOutcome)
                         /\ pbOutcome'[Len(pbOutcome')] = "ok")
          => (IF 2 * pbCurrentDelay >= 3 * DELAY_BETWEEN_BATCHES * DelayScale
              THEN 3 * pbCurrentDelay' = 2 * pbCurrentDelay
              ELSE pbCurrentDelay' = DELAY_BETWEEN_BATCHES * DelayScale)
    /\ (pbPc \notin {"attempt", "idle"})
          => (pbCurrentDelay' = pbCurrentDelay)

\* C33: the inter-batch delay starts at DELAY_BETWEEN_BATCHES (5000 ms), is
\* multiplied by PROGRESSIVE_BACKOFF (1.5) on every failed batch attempt and
\* becomes max(DELAY_BETWEEN_BATCHES, delay / 1.5) on every successful
\* batch; in every reachable state the delay is at least
\* DELAY_BETWEEN_BATCHES.
C33_DelayFollowsAttempts ==
    /\ [](pbCurrentDelay >= DELAY_BETWEEN_BATCHES * DelayScale)
    /\ [](pbPc = "fetching" => pbCurrentDelay = DELAY_BETWEEN_BATCHES * DelayScale)
    /\ [][DelayStep]_vars

\* a batch succeeded on its third attempt: the delay went from 5000 ms to
\* 11250 ms and back to 7500 ms
C33_Witness ==
    /\ pbPc \in {"batchSleep", "merging"}
    /\ pbRetryCount = 2
    /\ Len(pbOutcome) = 1
    /\ pbOutcome[1] = "ok"
    /\ 2 * pbCurrentDelay = 3 * DELAY_BETWEEN_BATCHES * DelayScale

-----------------------------------------------------------------------------
(* Properties of the fetched list and its batches *)

RECURSIVE Concatenated(_)
Concatenated(lists) ==
    IF Len(lists) = 0 THEN << >>
    ELSE lists[1] \o Concatenated(SubSeq(lists, 2, Len(lists)))

\* C34: the batches are consecutive slices of the fetched list: concatenated
\* in batch order they equal the fetched list, every batch has between 1 and
\* BATCH_SIZE (25) messages, only the last batch may be shorter than
\* BATCH_SIZE, and an empty list yields no batch.
C34_BatchesPartitionTheList ==
    ftPc = "batched" =>
        /\ Concatenated(ftBatches) = ftReturned
        /\ \A b \in 1..Len(ftBatches) :
              /\ Len(ftBatches[b]) >= 1
              /\ Len(ftBatches[b]) <= BATCH_SIZE
              /\ b < Len(ftBatches) => Len(ftBatches[b]) = BATCH_SIZE
        /\ Len(ftReturned) = 0 => Len(ftBatches) = 0

\* a list of 59 messages was split into two full batches and one of 9
C34_Witness ==
    /\ ftPc = "batched"
    /\ Len(ftReturned) = 59
    /\ Len(ftBatches) = 3
    /\ Len(ftBatches[3]) = 9

\* C35: when no fetch error or timeout occurs, the number of messages
\* returned by fetchTelegramMessages(channel, totalLimit) and partitioned
\* into batches equals min(totalLimit, number of text messages available
\* from the source).
C35_ReturnsMinOfLimitAndAvailable ==
    (ftPc \in {"returned", "batched"} /\ ~ftFailed)
        => Len(ftReturned) = Min(ftLimit, TextCount(ftSource))

-----------------------------------------------------------------------------
(* Properties of one consumeTokens call *)

\* a step of consumeTokens, for a request of at most the capacity
ConsumeStep ==
    /\ (tlPc = "idle" /\ tlPc' = "waiting" /\ tlTokens' <= tlTokensPerMinute)
          => /\ tlTokens' > tlTokenBudget'
             /\ tlTokenBudget' = RefilledBudget(tlTokenBudget, tlLastRefillTime,
                                                tlTokensPerMinute, now)
             /\ (tlWakeAt' - now) * tlTokensPerMinute
                   >= (tlTokens' - tlTokenBudget') * MinuteMs
             /\ (tlWakeAt' - now - 1) * tlTokensPerMinute
                   < (tlTokens' - tlTokenBudget') * MinuteMs
             /\ tlServed' = tlServed
    /\ (tlPc = "waiting" /\ tlPc' = "idle" /\ tlTokens <= tlTokensPerMinute)
          => /\ tlServed' = tlServed + 1
             /\ tlTokenBudget' >= 0
             /\ tlTokenBudget' = RefilledBudget(tlTokenBudget, tlLastRefillTime,
                                                tlTokensPerMinute, now) - tlTokens
    /\ (tlPc = "idle" /\ tlPc' = "idle" /\ tlServed' = tlServed + 1
                      /\ tlTokens' <= tlTokensPerMinute)
          => /\ tlTokens' <= RefilledBudget(tlTokenBudget, tlLastRefillTime,
                                            tlTokensPerMinute, now)
             /\ tlTokenBudget' = RefilledBudget(tlTokenBudget, tlLastRefillTime,
                                                tlTokensPerMinute, now) - tlTokens'
             /\ tlTokenBudget' >= 0
             /\ tlWakeAt' = tlWakeAt

\* C36: under sequential consumeTokens calls that each request at most
\* capacity tokens: when the request exceeds the available budget,
\* consumeTokens suspends exactly once, for
\* ceil((tokens - available) * 60000 / capacity) ms, and the refill after the
\* wait brings available to at least tokens, so the subtraction leaves
\* available >= 0; when the request does not exceed the budget there is no
\* suspension and available decreases by exactly tokens.
C36_OneWaitCoversTheRequest == [][ConsumeStep]_vars

\* a request of 25 tokens found 5 of a capacity of 45, waited 26667 ms, a
\* time that is not a whole number of tokens, and left a budget of 0
C36_Witness ==
    /\ tlPc = "idle"
    /\ tlTokensPerMinute = 45
    /\ tlTokens = 25
    /\ Len(tlConsumed) > 0
    /\ tlConsumed[Len(tlConsumed)] = <<tlWakeAt, 25>>
    /\ tlWakeAt % 1000 # 0
    /\ tlTokenBudget = 0

-----------------------------------------------------------------------------
(* Properties of the amounts of a roundup *)

\* the line mentions the amount value after a dollar sign, in billions
BillionsOnLine(line, value) ==
    \E p \in 1..Len(line) :
        /\ line[p] = "$"
        /\ p + Len(value) + 1 <= Len(line)
        /\ SubSeq(line, p + 1, p + Len(value)) = value
        /\ line[p + Len(value) + 1] \in {"B", "b"}

\* the amount has the suffix B exactly when a line of the text gives its
\* value in billions
SuffixIsUnit(text, amount) ==
    (amount[Len(amount)] = "B")
        <=> \E l \in 1..Len(text) :
                BillionsOnLine(text[l], SubSeq(amount, 1, Len(amount) - 1))

\* C37: in the deterministic roundup parser, the suffix of each extracted
\* amount is B exactly when the unit mentioned for that amount on its line is
\* billions and M otherwise; a line whose company name contains the letter b
\* but whose amount is in millions yields an M amount.
C37_SuffixIsTheUnitOfTheAmount ==
    \A c \in 1..Len(dpCalls) :
        dpCalls[c].result.type = "roundup" =>
            \A k \in 1..Len(dpCalls[c].result.amount.a) :
                /\ dpCalls[c].result.amount.a[k].s[Len(dpCalls[c].result.amount.a[k].s)]
                      \in {"B", "M"}
                /\ SuffixIsUnit(dpCalls[c].text, dpCalls[c].result.amount.a[k].s)

-----------------------------------------------------------------------------
(* Properties of recordError *)

\* what a recordError call does to this.data
RecordErrorStep ==
    (ckLive /\ ckLive' /\ ckLastCall'.op = "recordError" /\ ckData' # ckData)
        => /\ Len(ckData'.errors) = Len(ckData.errors) + 1
           /\ SubSeq(ckData'.errors, 1, Len(ckData.errors)) = ckData.errors
           /\ DOMAIN ckData'.errors[Len(ckData'.errors)] = {"batch", "message", "time"}
           /\ ckData'.errors[Len(ckData'.errors)].batch = ckLastCall'.batchIndex
           /\ ckData'.errors[Len(ckData'.errors)].time = IsoTime(now)
           /\ ckData'.lastBatchIndex = ckData.lastBatchIndex
           /\ ckData'.totalProcessed = ckData.totalProcessed
           /\ ckData'.batchSize = ckData.batchSize
           /\ ckData'.channel = ckData.channel
           /\ getNextBatchIndex(ckData') = getNextBatchIndex(ckData)
           /\ ckLastCall'.batchIndex = getNextBatchIndex(ckData)
                 => getNextBatchIndex(ckData') = ckLastCall'.batchIndex

\* C38: recordError changes only the error log: it appends exactly one entry
\* {batch, message, time} at the end and leaves lastBatchIndex,
\* totalProcessed, batchSize, channel and all earlier error entries
\* unchanged, so getNextBatchIndex() returns the same value before and after
\* and a failed batch is the next one proposed on resume.
C38_RecordErrorOnlyAppends ==
    /\ [][RecordErrorStep]_vars
    /\ []((/\ ckLive
           /\ ckLastCall.op = "constructor"
           /\ ckLastCall.prevOp = "recordError"
           /\ ckLastCall.prevPath = ckPath)
          => /\ ckData = ckLastData
             /\ Len(ckData.errors) > 0
             /\ ckData.errors[Len(ckData.errors)].batch = ckLastCall.prevBatchIndex)

\* batch 0 was processed, batch 1 failed twice, and the manager constructed
\* after a stop proposes batch 1
C38_Witness ==
    /\ ckLive
    /\ ckLastCall.op = "constructor"
    /\ ckLastCall.prevOp = "recordError"
    /\ ckLastCall.prevPath = ckPath
    /\ Len(ckData.errors) = 2
    /\ ckData.errors[1].batch = 1
    /\ ckData.errors[2].batch = 1
    /\ ckData.lastBatchIndex = 0
    /\ getNextBatchIndex(ckData) = 1

-----------------------------------------------------------------------------
(* Termination of processBulkMessages *)

\* how the attempts of a run follow each other: a further attempt on the
\* same batch, or the first attempt on the next batch
AttemptStep ==
    AttemptStarts
        => \/ pbPc = "fetching" /\ pbI' = 0 /\ pbAttempts' = 1
           \/ pbPc = "retrySleep" /\ pbI' = pbI /\ pbAttempts' = pbAttempts + 1
           \/ pbPc = "batchSleep" /\ pbI' = pbI + 1 /\ pbAttempts' = 1

\* C39: processBulkMessages terminates without raising for every finite
\* fetched message list, provided each external call returns or raises: it
\* makes at most MAX_RETRIES_PER_BATCH attempts on each of its batches, that
\* is at most MAX_RETRIES_PER_BATCH * (number of batches) batch attempts, and
\* any error escaping the batch loop or the merge is caught at the top
\* level and ends the run.
C39_RunTerminates ==
    /\ [](pbAttempts <= MAX_RETRIES_PER_BATCH)
    /\ [](pbPc \in {"attempt", "retrySleep", "batchSleep"}
            => pbI < BatchCount(pbMessages))
    /\ [][AttemptStep]_vars
    /\ (pbPc = "fetching") ~> (pbPc \in {"done", "idle"})

\* the run of two batches ended after three failed attempts on each
C39_Witness ==
    /\ pbPc = "done"
    /\ BatchCount(pbMessages) = 2
    /\ pbOutcome = <<"failed", "failed">>
    /\ pbAttempts = MAX_RETRIES_PER_BATCH

=============================================================================
